---- MODULE Spec2Model ----
(***************************************************************************)
(* Model of the ordered_vec crate: the generational slot store OrderedVec, *)
(* the reservation scheme of ShareableOrderedVec, and the deferred command *)
(* logs of AtomicIndexedOrderedVec, ConcurrentOrderedVec and               *)
(* HalfConcurrentOrderedVec.  Each container has its own specification     *)
(* (SpecOV, SpecSh, ...) over its own variables.                           *)
(*                                                                         *)
(* A u64 is kept as its two 32-bit words [lo, hi] (value = hi * 2^32 + lo),*)
(* so that the codec's shifts and casts are computed, not assumed.         *)
(* An Option<T> is 0 for None and the element otherwise; elements are the  *)
(* positive numbers.                                                       *)
(***************************************************************************)
EXTENDS Integers, Sequences, FiniteSets, TLC

\* ---------------------------------------------------------------- bounds
\* Number of push_shove calls explored on one OrderedVec (each call stores
\* a fresh element, so elements identify insertions).
MaxPush == 3
\* Cap on the length of a `missing` stack (remove pushes unconditionally).
MaxMissing == 2
\* Handles given to remove/get range over lo in 0..MaxIdxIn, hi in 0..MaxVerIn.
MaxIdxIn == 2
MaxVerIn == 1
\* Threads that reserve on one ShareableOrderedVec.
NumShThreads == 2
\* Reservations explored in one epoch.
MaxReserve == 2
\* Reservations explored in one epoch in which reserved handles are inserted
\* while others are outstanding.
MaxEpochReserve == 3
MaxHcSpin == 2
\* Number of insert calls explored on one ShareableOrderedVec.
MaxShInsert == 3
\* Caps of the atomics `length` and `counter` of a ShareableOrderedVec.
MaxShLength == 3
MaxShCounter == 3
\* Handles and indices given to the owner's calls on a ShareableOrderedVec
\* have lo (index) in 0..MaxShIdxIn.
MaxShIdxIn == 1
\* Threads that submit to one AtomicIndexedOrderedVec.
NumAtThreads == 2
\* Calls made by the submitting threads, and elements stored, on one
\* AtomicIndexedOrderedVec.
MaxAtCalls == 2
MaxAtElems == 2
\* Indices given to remove on an AtomicIndexedOrderedVec are in 0..MaxAtIdxIn.
MaxAtIdxIn == 1
\* Threads that submit to one ConcurrentOrderedVec, the calls they make, the
\* elements stored, and the indices given to remove (0..MaxCoIdxIn).
NumCoThreads == 2
MaxCoCalls == 2
MaxCoElems == 2
MaxCoIdxIn == 1
\* Threads that call one HalfConcurrentOrderedVec, the calls they make, the
\* elements submitted, and the indices given to remove (0..MaxHcIdxIn).
NumHcThreads == 2
MaxHcCalls == 3
MaxHcElems == 3
MaxHcIdxIn == 1
\* The codec's inputs: index in 0..MaxCdIdx, version in 0..MaxCdVer.
MaxCdIdx == 7
MaxCdVer == 7

\* ------------------------------------------------------- program constants
\* Width of IndexPair::index / IndexPair::version (u32).
U32Bits == 32
\* The shift distance written in to_id and from_id.
Shift == 32

NoneVal == 0
\* Option<u32>::None as a slot's version.
NoVer == -1
\* Bits of one batch (an AtomicU64).
BatchBits == 64

VARIABLES
    overflow_checks,  \* build profile: TRUE = debug (overflow checks), FALSE = release
    ov_vec,           \* OrderedVec::vec : Seq of [val, ver]
    ov_missing,       \* OrderedVec::missing
    ov_panicked,      \* a call on the OrderedVec has panicked
    ov_next,          \* next fresh element to push (history)
    ov_handles,       \* ov_handles[k] = handle returned by the push of element k (history)
    ov_ops,           \* names of the operations called so far (history)
    ov_last,          \* the last call: [op, id, idx, val] (history)
    sh_vec,           \* ShareableOrderedVec::vec : Seq of [val, ver], ver = NoVer for None
    sh_missing,       \* ShareableOrderedVec::missing
    sh_counter,       \* ShareableOrderedVec::counter (AtomicUsize)
    sh_length,        \* ShareableOrderedVec::length (AtomicUsize)
    sh_panicked,      \* a call on the ShareableOrderedVec has panicked
    sh_pc,            \* per thread: "idle", or "ctr" inside get_next_id_increment
    sh_ctr,           \* per thread: the local `ctr` of get_next_id_increment
    sh_ord,           \* per thread: ordinal of its reservation in the epoch (history)
    sh_next,          \* next fresh element to insert (history)
    sh_granted,       \* reservations of the current epoch, in order of return (history)
    sh_epoch,         \* the epoch's snapshot and bookkeeping (history)
    at_vec,           \* AtomicIndexedOrderedVec::vec : Seq of Option<T>
    at_missing,       \* AtomicIndexedOrderedVec::missing
    at_counter,       \* ::counter
    at_length,        \* ::length
    at_command_counter, \* ::command_counter
    at_empty_count,   \* ::empty_count; a negative k stands for the wrapped 2^64 + k
    at_bitfield,      \* ::bitfield, as the set of indices whose bit is set
    at_chan,          \* commands sent on tx and not yet received on rx
    at_panicked,      \* a call on the AtomicIndexedOrderedVec has panicked
    at_pc,            \* per submitting thread: position inside push_shove / remove
    at_loc,           \* per submitting thread: its locals [ctr, idx, cid, elem]
    at_upc,           \* the creation thread's position inside update()
    at_command_count, \* update()'s local command_count
    at_cbuffer,       \* update()'s local cbuffer
    at_next,          \* next fresh element (history)
    at_calls,         \* calls started by submitting threads (history)
    at_ret,           \* [elem, idx] of the push_shove calls returned in the epoch (history)
    at_drained,       \* the commands of the current update() in arrival order (history)
    at_applied,       \* command ids applied by the current update(), in order (history)
    at_phase,         \* "open", or "committed" once an update() has completed (history)
    at_clean,         \* the epoch is push_shove calls, then one update() (history)
    co_vec,           \* ConcurrentOrderedVec::vec
    co_missing,       \* ::missing
    co_len,           \* ::len
    co_cmd_counter,   \* ::cmd_counter
    co_chan,          \* commands sent on tx and not yet received on rx
    co_poisoned,      \* the lock of missing is poisoned (a holder panicked)
    co_owner_dead,    \* the creation thread has panicked
    co_pc,            \* per submitting thread: position inside push_shove / remove
    co_loc,           \* per submitting thread: its locals [cmd, idx, elem]
    co_next,          \* next fresh element (history)
    co_calls,         \* calls started by submitting threads (history)
    co_drained,       \* the commands of the last update() in arrival order (history)
    co_applied,       \* sequence numbers applied by the last update(), in order (history)
    hc_batches,       \* HalfConcurrentOrderedVec::batches, each as the set of its set bits
    hc_vec,           \* ::vec
    hc_ctr,           \* ::ctr
    hc_chan,          \* commands sent on tx and not yet received on rx
    hc_dead,          \* update() has panicked (the lock of vec is poisoned)
    hc_pc,            \* per thread: position inside push_shove / remove
    hc_loc,           \* per thread: its locals
    hc_next,          \* next fresh element (history)
    hc_calls,         \* calls started (history)
    hc_drained,       \* the commands of the last update() in arrival order (history)
    hc_applied,       \* sequence numbers update() printed on reaching them (history)
    log_container,    \* which container with a command log the program has built
    cd_pair,          \* the IndexPair handed to to_id
    cd_id,            \* the u64 to_id returned
    cd_out,           \* the IndexPair from_id returned for cd_id
    cd_pc,            \* position of the codec round trip
    ov_out,           \* the sequence the last clear / iter / my_drain returned (history)
    sh_last,          \* the last get_next_id() call on the ShareableOrderedVec: [op, id] (history)
    at_hist,          \* the order in which commands took their sequence number (history)
    ov_hist,          \* the handles of the OrderedVec that were invalidated (history)
    co_hist           \* what the push_shove calls of the submitting threads returned (history)

ovVars == <<ov_vec, ov_missing, ov_panicked, ov_next, ov_handles, ov_ops, ov_last>>

shVars == <<sh_vec, sh_missing, sh_counter, sh_length, sh_panicked, sh_pc, sh_ctr,
            sh_ord, sh_next, sh_granted, sh_epoch>>

atVars == <<at_vec, at_missing, at_counter, at_length, at_command_counter,
            at_empty_count, at_bitfield, at_chan, at_panicked, at_pc, at_loc, at_upc,
            at_command_count, at_cbuffer, at_next, at_calls, at_ret, at_drained,
            at_applied, at_phase, at_clean>>

coVars == <<co_vec, co_missing, co_len, co_cmd_counter, co_chan, co_poisoned,
            co_owner_dead, co_pc, co_loc, co_next, co_calls, co_drained, co_applied>>

hcVars == <<hc_batches, hc_vec, hc_ctr, hc_chan, hc_dead, hc_pc, hc_loc, hc_next,
            hc_calls, hc_drained, hc_applied>>

cdVars == <<cd_pair, cd_id, cd_out, cd_pc>>

ovqVars == <<ov_out>>

shqVars == <<sh_last>>

histVars == <<at_hist, ov_hist, co_hist>>

vars == <<overflow_checks, ovVars, shVars, atVars, coVars, hcVars, log_container,
          cdVars, ovqVars,
          shqVars, histVars>>

\* ------------------------------------------------------------------ codec
\* Bitwise OR of two naturals.
RECURSIVE BitOr(_, _)
BitOr(a, b) ==
    IF a = 0 THEN b
    ELSE IF b = 0 THEN a
    ELSE (IF a % 2 = 1 \/ b % 2 = 1 THEN 1 ELSE 0) + 2 * BitOr(a \div 2, b \div 2)

\* `x << n` on a u32 with overflow checks off: the shift distance is masked
\* to the width (n % 32).  The values the model reaches are far below 2^32,
\* so the truncation of the product to 32 bits never cuts anything.
Shl32(x, n) == x * 2 ^ (n % U32Bits)

\* `x << n` on a u32 with overflow checks on panics when n >= 32.
Shl32Overflows(n) == n >= U32Bits

\* u64 shifts by 32 on the two-word form: << 32 moves lo into hi and drops
\* the old hi; >> 32 moves hi into lo.
Shl64By32(w) == [lo |-> 0, hi |-> w.lo]
Shr64By32(w) == [lo |-> w.hi, hi |-> 0]

\* `x as u64` of a u32: zero extension.
U32AsU64(x) == [lo |-> x, hi |-> 0]

BitOr64(v, w) == [lo |-> BitOr(v.lo, w.lo), hi |-> BitOr(v.hi, w.hi)]

IndexPairNew(index, version) == [index |-> index, version |-> version]

\* to_id: id = index as u64; id |= (version << 32) as u64.  The shift is
\* done on the u32, before the cast.
to_id(pair) == BitOr64(U32AsU64(pair.index), U32AsU64(Shl32(pair.version, Shift)))

\* to_id panics under overflow checks (shift distance 32 on a u32).
to_id_panics == overflow_checks /\ Shl32Overflows(Shift)

\* from_id: index = ((id << 32) >> 32) as u32, version = (id >> 32) as u32.
from_id(id) ==
    [index |-> Shr64By32(Shl64By32(id)).lo, version |-> Shr64By32(id).lo]

IdInputs == [lo : 0..MaxIdxIn, hi : 0..MaxVerIn]
ShIdInputs == [lo : 0..MaxShIdxIn, hi : 0..MaxVerIn]
NoId == [lo |-> 0, hi |-> 0]

\* ------------------------------------------------------------- OrderedVec
Slot(val, ver) == [val |-> val, ver |-> ver]

\* get without its comparison of the versions.
GetIn_any_version(vec, id) ==
    LET pair == from_id(id) IN
    IF pair.index < Len(vec) THEN vec[pair.index + 1].val ELSE NoneVal

\* OrderedVec::get on a store (vec): Some(v) as v, None as 0.
GetIn(vec, id) ==
    LET pair == from_id(id) IN
    IF pair.index < Len(vec)
    THEN IF pair.version = vec[pair.index + 1].ver
         THEN vec[pair.index + 1].val
         ELSE NoneVal
    ELSE NoneVal

ov_get(id) == GetIn(ov_vec, id)

ov_count == Len(ov_vec) - Len(ov_missing)

OVLast(op, id, idx, val) == [op |-> op, id |-> id, idx |-> idx, val |-> val]

\* The handles invalidated so far: ever (by a remove that returned the
\* element, or by a clear that dropped it), and removed: by such a remove
\* since the last clear.
OVHistInit == [ever |-> {}, removed |-> {}]

OVInit ==
    /\ ov_vec = <<>>
    /\ ov_missing = <<>>
    /\ ov_panicked = FALSE
    /\ ov_next = 1
    /\ ov_handles = <<>>
    /\ ov_ops = {}
    /\ ov_last = OVLast("new", NoId, 0, NoneVal)

\* push_shove, missing empty: vec.push((Some(elem), 0)); to_id(len - 1, 0).
OV_push ==
    /\ ~ov_panicked
    /\ ov_next <= MaxPush
    /\ ov_missing = <<>>
    /\ ov_vec' = Append(ov_vec, Slot(ov_next, 0))
    /\ ov_next' = ov_next + 1
    /\ ov_ops' = ov_ops \cup {"push_shove"}
    /\ UNCHANGED ov_missing
    /\ IF to_id_panics
       THEN /\ ov_panicked' = TRUE
            /\ ov_last' = OVLast("panic", NoId, 0, ov_next)
            /\ UNCHANGED ov_handles
       ELSE /\ UNCHANGED ov_panicked
            /\ LET id == to_id(IndexPairNew(Len(ov_vec), 0)) IN
               /\ ov_handles' = Append(ov_handles, id)
               /\ ov_last' = OVLast("push_shove", id, Len(ov_vec), ov_next)

\* push_shove, missing non-empty, that leaves the slot's version as it is.
OV_shove_same_version ==
    /\ ~ov_panicked
    /\ ov_next <= MaxPush
    /\ ov_missing # <<>>
    /\ LET index == ov_missing[Len(ov_missing)] IN
       /\ ov_missing' = SubSeq(ov_missing, 1, Len(ov_missing) - 1)
       /\ ov_next' = ov_next + 1
       /\ ov_ops' = ov_ops \cup {"push_shove"}
       /\ IF index >= Len(ov_vec)
          THEN /\ ov_panicked' = TRUE
               /\ ov_last' = OVLast("panic", NoId, index, ov_next)
               /\ UNCHANGED <<ov_vec, ov_handles>>
          ELSE LET version == ov_vec[index + 1].ver IN
               /\ ov_vec' = [ov_vec EXCEPT ![index + 1] = Slot(ov_next, version)]
               /\ IF to_id_panics
                  THEN /\ ov_panicked' = TRUE
                       /\ ov_last' = OVLast("panic", NoId, index, ov_next)
                       /\ UNCHANGED ov_handles
                  ELSE /\ UNCHANGED ov_panicked
                       /\ LET id == to_id(IndexPairNew(index, version)) IN
                          /\ ov_handles' = Append(ov_handles, id)
                          /\ ov_last' = OVLast("push_shove", id, index, ov_next)

\* push_shove, missing non-empty: index = missing.pop().unwrap();
\* vec.get_mut(index).unwrap() (panics out of range); value and version + 1.
OV_shove ==
    /\ ~ov_panicked
    /\ ov_next <= MaxPush
    /\ ov_missing # <<>>
    /\ LET index == ov_missing[Len(ov_missing)] IN
       /\ ov_missing' = SubSeq(ov_missing, 1, Len(ov_missing) - 1)
       /\ ov_next' = ov_next + 1
       /\ ov_ops' = ov_ops \cup {"push_shove"}
       /\ IF index >= Len(ov_vec)
          THEN /\ ov_panicked' = TRUE
               /\ ov_last' = OVLast("panic", NoId, index, ov_next)
               /\ UNCHANGED <<ov_vec, ov_handles>>
          ELSE LET version == ov_vec[index + 1].ver + 1 IN
               /\ ov_vec' = [ov_vec EXCEPT ![index + 1] = Slot(ov_next, version)]
               /\ IF to_id_panics
                  THEN /\ ov_panicked' = TRUE
                       /\ ov_last' = OVLast("panic", NoId, index, ov_next)
                       /\ UNCHANGED ov_handles
                  ELSE /\ UNCHANGED ov_panicked
                       /\ LET id == to_id(IndexPairNew(index, version)) IN
                          /\ ov_handles' = Append(ov_handles, id)
                          /\ ov_last' = OVLast("push_shove", id, index, ov_next)

\* remove(id): missing.push(pair.index) first, then the range and version
\* checks (each returning None), then take the element.
OV_remove ==
    /\ ~ov_panicked
    /\ Len(ov_missing) < MaxMissing
    /\ \E id \in IdInputs :
        LET pair == from_id(id) IN
        /\ ov_missing' = Append(ov_missing, pair.index)
        /\ IF pair.index >= Len(ov_vec)
           THEN /\ UNCHANGED ov_vec
                /\ ov_last' = OVLast("remove", id, pair.index, NoneVal)
           ELSE IF pair.version # ov_vec[pair.index + 1].ver
                THEN /\ UNCHANGED ov_vec
                     /\ ov_last' = OVLast("remove", id, pair.index, NoneVal)
                ELSE /\ ov_vec' = [ov_vec EXCEPT ![pair.index + 1].val = NoneVal]
                     /\ ov_last' = OVLast("remove", id, pair.index,
                                          ov_vec[pair.index + 1].val)
        /\ ov_ops' = ov_ops \cup {"remove"}
        /\ UNCHANGED <<ov_panicked, ov_next, ov_handles>>

\* remove_index(index): missing.push(index); then take the element if in range.
OV_remove_index ==
    /\ ~ov_panicked
    /\ Len(ov_missing) < MaxMissing
    /\ \E index \in 0..MaxIdxIn :
        /\ ov_missing' = Append(ov_missing, index)
        /\ IF index >= Len(ov_vec)
           THEN /\ UNCHANGED ov_vec
                /\ ov_last' = OVLast("remove_index", NoId, index, NoneVal)
           ELSE /\ ov_vec' = [ov_vec EXCEPT ![index + 1].val = NoneVal]
                /\ ov_last' = OVLast("remove_index", NoId, index, ov_vec[index + 1].val)
        /\ ov_ops' = ov_ops \cup {"remove_index"}
        /\ UNCHANGED <<ov_panicked, ov_next, ov_handles>>

\* clear() that keeps the slots: every slot is freed in place and every
\* index is put on missing, the lowest on top.
OV_clear_keeps_slots ==
    /\ ~ov_panicked
    /\ ov_vec' = [k \in 1..Len(ov_vec) |-> Slot(NoneVal, ov_vec[k].ver)]
    /\ ov_missing' = [k \in 1..Len(ov_vec) |-> Len(ov_vec) - k]
    /\ ov_ops' = ov_ops \cup {"clear"}
    /\ ov_last' = OVLast("clear", NoId, 0, NoneVal)
    /\ UNCHANGED <<ov_panicked, ov_next, ov_handles>>

\* clear(): take the vec (leaving an empty one), missing.clear().
OV_clear ==
    /\ ~ov_panicked
    /\ ov_vec' = <<>>
    /\ ov_missing' = <<>>
    /\ ov_ops' = ov_ops \cup {"clear"}
    /\ ov_last' = OVLast("clear", NoId, 0, NoneVal)
    /\ UNCHANGED <<ov_panicked, ov_next, ov_handles>>

\* --------------------------------------------------- ShareableOrderedVec
ShThreads == 1..NumShThreads

ShSlot(val, ver) == [val |-> val, ver |-> ver]

\* Option<u32>::unwrap_or(0)
UnwrapOr0(ver) == IF ver = NoVer THEN 0 ELSE ver

\* ShareableOrderedVec::get on a store: None when the index is out of range,
\* the slot's version is None (`version.as_ref()?`) or differs.
ShGetIn(vec, id) ==
    LET pair == from_id(id) IN
    IF pair.index < Len(vec)
    THEN IF vec[pair.index + 1].ver = NoVer
         THEN NoneVal
         ELSE IF pair.version = vec[pair.index + 1].ver
              THEN vec[pair.index + 1].val
              ELSE NoneVal
    ELSE NoneVal

sh_get(id) == ShGetIn(sh_vec, id)

sh_count == Len(sh_vec) - Len(sh_missing)

sh_count_invalid == Len(sh_missing)

\* Vec::resize_with(idx, || (None, None)) on a vec no longer than idx.
ResizeWith(vec, idx) ==
    vec \o [k \in 1..(idx - Len(vec)) |-> ShSlot(NoneVal, NoVer)]

\* Vec::drain(0..n): the vec without its first n entries.
DrainFront(q, n) == SubSeq(q, n + 1, Len(q))

\* insert(id, elem), as a function of the store: the new vec, missing,
\* counter and length.
ShInsert(vec, missing, counter, length, id, elem) ==
    LET pair == from_id(id)
        idx == pair.index
    IN  IF idx >= Len(vec)
        THEN LET grown == Append(ResizeWith(vec, idx), ShSlot(elem, pair.version))
                 old_ctr == counter
             IN  [vec |-> grown,
                  missing |-> IF old_ctr # 0
                              THEN IF old_ctr >= Len(missing)
                                   THEN <<>>
                                   ELSE DrainFront(missing, old_ctr)
                              ELSE missing,
                  counter |-> 0,
                  length |-> Len(grown)]
        ELSE [vec |-> [vec EXCEPT ![idx + 1] =
                          ShSlot(elem, IF vec[idx + 1].ver = NoVer
                                       THEN 0
                                       ELSE vec[idx + 1].ver + 1)],
              missing |-> missing,
              counter |-> counter,
              length |-> length]

ShMidCall == {t \in ShThreads : sh_pc[t] # "idle"}

ShAllInserted == \A k \in 1..Len(sh_granted) : sh_granted[k].val # NoneVal

\* An epoch is open while a reservation is being made or is not yet inserted.
ShEpochOpen == ShMidCall # {} \/ ~ShAllInserted

ShNewEpoch ==
    [m0 |-> sh_missing, L0 |-> sh_length, n |-> 0,
     clean |-> TRUE, mixed |-> FALSE]

\* The record of a get_next_id() call: what happened and the ID returned.
ShLast(op, id) == [op |-> op, id |-> id]

ShInit ==
    /\ sh_vec = <<>>
    /\ sh_missing = <<>>
    /\ sh_counter = 0
    /\ sh_length = 0
    /\ sh_panicked = FALSE
    /\ sh_pc = [t \in ShThreads |-> "idle"]
    /\ sh_ctr = [t \in ShThreads |-> 0]
    /\ sh_ord = [t \in ShThreads |-> 0]
    /\ sh_next = 1
    /\ sh_granted = <<>>
    /\ sh_epoch = ShNewEpoch

\* get_next_id_increment, first atomic step: ctr = counter.fetch_add(1);
\* at most cap reservations are explored in one epoch.
Sh_reserve_ctr_upto(t, cap) ==
    /\ ~sh_panicked
    /\ sh_pc[t] = "idle"
    /\ sh_counter < MaxShCounter
    /\ sh_length < MaxShLength
    /\ LET ep == IF ShEpochOpen THEN sh_epoch ELSE ShNewEpoch
           kept == IF ShEpochOpen THEN sh_granted ELSE <<>>
       IN  /\ Len(kept) + Cardinality(ShMidCall) < cap
           /\ sh_granted' = kept
           /\ sh_ord' = [sh_ord EXCEPT ![t] = ep.n]
           /\ sh_epoch' = [ep EXCEPT !.n = ep.n + 1,
                                     !.mixed = ep.mixed \/
                                        (\E k \in 1..Len(kept) : kept[k].val # NoneVal)]
    /\ sh_ctr' = [sh_ctr EXCEPT ![t] = sh_counter]
    /\ sh_counter' = sh_counter + 1
    /\ sh_pc' = [sh_pc EXCEPT ![t] = "ctr"]
    /\ UNCHANGED <<sh_vec, sh_missing, sh_length, sh_panicked, sh_next>>

Sh_reserve_ctr(t) == Sh_reserve_ctr_upto(t, MaxReserve)

\* get_next_id_increment, the rest, with length.load() in place of
\* length.fetch_add(1).
Sh_reserve_finish_load(t) ==
    /\ ~sh_panicked
    /\ sh_pc[t] = "ctr"
    /\ LET from_missing == sh_ctr[t] < Len(sh_missing)
           index == IF from_missing THEN sh_missing[sh_ctr[t] + 1] ELSE sh_length
           version == IF index < Len(sh_vec)
                      THEN UnwrapOr0(sh_vec[index + 1].ver) + 1
                      ELSE 0
       IN  /\ UNCHANGED sh_length
           /\ IF to_id_panics
              THEN /\ sh_panicked' = TRUE
                   /\ UNCHANGED sh_granted
              ELSE /\ UNCHANGED sh_panicked
                   /\ sh_granted' = Append(sh_granted,
                         [id |-> to_id(IndexPairNew(index, version)),
                          index |-> index, version |-> version,
                          ord |-> sh_ord[t], val |-> NoneVal])
    /\ sh_pc' = [sh_pc EXCEPT ![t] = "idle"]
    /\ sh_ctr' = [sh_ctr EXCEPT ![t] = 0]
    /\ sh_ord' = [sh_ord EXCEPT ![t] = 0]
    /\ UNCHANGED <<sh_vec, sh_missing, sh_counter, sh_next, sh_epoch>>

\* get_next_id_increment, the rest: index = missing.get(ctr) or else
\* length.fetch_add(1); version = that slot's version.unwrap_or(0) + 1 if the
\* slot exists, else 0; to_id.
Sh_reserve_finish(t) ==
    /\ ~sh_panicked
    /\ sh_pc[t] = "ctr"
    /\ LET from_missing == sh_ctr[t] < Len(sh_missing)
           index == IF from_missing THEN sh_missing[sh_ctr[t] + 1] ELSE sh_length
           version == IF index < Len(sh_vec)
                      THEN UnwrapOr0(sh_vec[index + 1].ver) + 1
                      ELSE 0
       IN  /\ sh_length' = IF from_missing THEN sh_length ELSE sh_length + 1
           /\ IF to_id_panics
              THEN /\ sh_panicked' = TRUE
                   /\ UNCHANGED sh_granted
              ELSE /\ UNCHANGED sh_panicked
                   /\ sh_granted' = Append(sh_granted,
                         [id |-> to_id(IndexPairNew(index, version)),
                          index |-> index, version |-> version,
                          ord |-> sh_ord[t], val |-> NoneVal])
    /\ sh_pc' = [sh_pc EXCEPT ![t] = "idle"]
    /\ sh_ctr' = [sh_ctr EXCEPT ![t] = 0]
    /\ sh_ord' = [sh_ord EXCEPT ![t] = 0]
    /\ UNCHANGED <<sh_vec, sh_missing, sh_counter, sh_next, sh_epoch>>

\* The owner's calls need &mut self: no reservation is in progress.
ShOwnerMayRun == ~sh_panicked /\ ShMidCall = {}

ShApplyInsert(id, elem) ==
    LET r == ShInsert(sh_vec, sh_missing, sh_counter, sh_length, id, elem) IN
    /\ sh_vec' = r.vec
    /\ sh_missing' = r.missing
    /\ sh_counter' = r.counter
    /\ sh_length' = r.length
    /\ sh_next' = sh_next + 1

\* insert(h, v) for a handle h reserved in this epoch and not inserted yet.
Sh_insert_reserved ==
    /\ ShOwnerMayRun
    /\ sh_next <= MaxShInsert
    /\ \E k \in 1..Len(sh_granted) :
        /\ sh_granted[k].val = NoneVal
        /\ ShApplyInsert(sh_granted[k].id, sh_next)
        /\ sh_granted' = [sh_granted EXCEPT ![k].val = sh_next]
    /\ UNCHANGED <<sh_panicked, sh_pc, sh_ctr, sh_ord, sh_epoch>>

\* insert(id, v) with any id (the owner inserting directly).
Sh_insert ==
    /\ ShOwnerMayRun
    /\ sh_next <= MaxShInsert
    /\ \E id \in ShIdInputs : ShApplyInsert(id, sh_next)
    /\ sh_epoch' = [sh_epoch EXCEPT !.clean = FALSE]
    /\ UNCHANGED <<sh_panicked, sh_pc, sh_ctr, sh_ord, sh_granted>>

\* remove(id): missing.push(pair.index) first; None when out of range, when
\* the slot's version is None or differs; else take the element.
Sh_remove ==
    /\ ShOwnerMayRun
    /\ Len(sh_missing) < MaxMissing
    /\ \E id \in ShIdInputs :
        LET pair == from_id(id) IN
        /\ sh_missing' = Append(sh_missing, pair.index)
        /\ IF /\ pair.index < Len(sh_vec)
              /\ sh_vec[pair.index + 1].ver # NoVer
              /\ pair.version = sh_vec[pair.index + 1].ver
           THEN sh_vec' = [sh_vec EXCEPT ![pair.index + 1].val = NoneVal]
           ELSE UNCHANGED sh_vec
    /\ sh_epoch' = [sh_epoch EXCEPT !.clean = FALSE]
    /\ UNCHANGED <<sh_counter, sh_length, sh_panicked, sh_pc, sh_ctr, sh_ord,
                   sh_next, sh_granted>>

\* remove_index(index): missing.push(index); take the element if in range.
Sh_remove_index ==
    /\ ShOwnerMayRun
    /\ Len(sh_missing) < MaxMissing
    /\ \E index \in 0..MaxShIdxIn :
        /\ sh_missing' = Append(sh_missing, index)
        /\ IF index < Len(sh_vec)
           THEN sh_vec' = [sh_vec EXCEPT ![index + 1].val = NoneVal]
           ELSE UNCHANGED sh_vec
    /\ sh_epoch' = [sh_epoch EXCEPT !.clean = FALSE]
    /\ UNCHANGED <<sh_counter, sh_length, sh_panicked, sh_pc, sh_ctr, sh_ord,
                   sh_next, sh_granted>>

\* clear(): take the vec, missing.clear(); counter and length are not touched.
Sh_clear ==
    /\ ShOwnerMayRun
    /\ sh_vec' = <<>>
    /\ sh_missing' = <<>>
    /\ sh_epoch' = [sh_epoch EXCEPT !.clean = FALSE]
    /\ UNCHANGED <<sh_counter, sh_length, sh_panicked, sh_pc, sh_ctr, sh_ord,
                   sh_next, sh_granted>>

\* ------------------------------------------------ deferred command logs
\* The commands left in arrival order (no sort).
SortBySeq_unsorted(q) == q

\* slice::sort_by on the commands' sequence number (a stable sort): insertion
\* of each command, in arrival order, after the last one not greater.
RECURSIVE SortBySeq(_)
SortBySeq(q) ==
    IF q = <<>> THEN <<>>
    ELSE LET rest == SortBySeq(SubSeq(q, 1, Len(q) - 1))
             x == q[Len(q)]
             k == Cardinality({i \in 1..Len(rest) : rest[i].seq <= x.seq})
         IN  SubSeq(rest, 1, k) \o <<x>> \o SubSeq(rest, k + 1, Len(rest))

\* ----------------------------------------------- AtomicIndexedOrderedVec
\* The submitting threads run the "multi-threaded way" branches (their
\* creation_thread is false); the creation thread runs the direct branches
\* and update().
AtThreads == 1..NumAtThreads

AtCmd(seq, kind, elem, idx) == [seq |-> seq, kind |-> kind, elem |-> elem, idx |-> idx]

AtNoLoc == [ctr |-> 0, idx |-> 0, cid |-> 0, elem |-> NoneVal]

\* Threads holding the read guard on `missing` (taken on entry to the
\* multi-threaded push_shove, dropped after empty_count.fetch_sub).
AtReaders == {t \in AtThreads : at_pc[t] \in {"p_idx", "p_cid", "p_send", "p_empty"}}

AtMidCall == {t \in AtThreads : at_pc[t] # "idle"}

\* The history of the commands' sequence numbers: every fetch_add on
\* command_counter takes the next ticket (1, 2, ...); tk is each thread's
\* ticket, chan and cbuf follow the channel and update()'s cbuffer, and
\* applied lists the tickets of the commands applied so far.
AtHistInit ==
    [tick |-> 0, tk |-> [t \in 1..NumAtThreads |-> 0], chan |-> <<>>, cbuf |-> <<>>,
     applied |-> <<>>]

AtInit ==
    /\ at_vec = <<>>
    /\ at_missing = <<>>
    /\ at_counter = 0
    /\ at_length = 0
    /\ at_command_counter = 0
    /\ at_empty_count = 0
    /\ at_bitfield = {}
    /\ at_chan = <<>>
    /\ at_panicked = FALSE
    /\ at_pc = [t \in AtThreads |-> "idle"]
    /\ at_loc = [t \in AtThreads |-> AtNoLoc]
    /\ at_upc = "idle"
    /\ at_command_count = 0
    /\ at_cbuffer = <<>>
    /\ at_next = 1
    /\ at_calls = 0
    /\ at_ret = {}
    /\ at_drained = <<>>
    /\ at_applied = <<>>
    /\ at_phase = "open"
    /\ at_clean = TRUE

\* Bookkeeping of a step by a submitting thread (starting = it begins a
\* call; returned = what a push_shove returns at this step).
AtThreadBook(starting, is_push, returned) ==
    LET fresh == starting /\ at_phase = "committed"
        clean == (IF fresh THEN TRUE ELSE at_clean) /\ at_upc = "idle" /\ is_push
    IN  /\ at_phase' = IF fresh THEN "open" ELSE at_phase
        /\ at_clean' = clean
        /\ at_ret' = IF clean THEN (IF fresh THEN {} ELSE at_ret) \cup returned ELSE {}

\* Bookkeeping of a direct call by the creation thread.
AtOwnerBook ==
    /\ at_phase' = "open"
    /\ at_clean' = (at_phase = "committed" \/ (at_clean /\ at_ret = {} /\ AtMidCall = {}))
    /\ at_ret' = {}

\* push_shove, multi-threaded way: read guard on missing, ctr = counter.fetch_add(1).
At_push_ctr(t) ==
    /\ ~at_panicked
    /\ at_pc[t] = "idle"
    /\ at_calls < MaxAtCalls
    /\ at_next <= MaxAtElems
    /\ at_loc' = [at_loc EXCEPT ![t] = [AtNoLoc EXCEPT !.ctr = at_counter, !.elem = at_next]]
    /\ at_counter' = at_counter + 1
    /\ at_next' = at_next + 1
    /\ at_calls' = at_calls + 1
    /\ at_pc' = [at_pc EXCEPT ![t] = "p_idx"]
    /\ AtThreadBook(TRUE, TRUE, {})
    /\ UNCHANGED <<at_vec, at_missing, at_length, at_command_counter, at_empty_count,
                   at_bitfield, at_chan, at_panicked, at_upc, at_command_count,
                   at_cbuffer, at_drained, at_applied>>

\* idx = read.get(ctr) or else length.fetch_add(1).
At_push_idx(t) ==
    /\ at_pc[t] = "p_idx"
    /\ LET from_missing == at_loc[t].ctr < Len(at_missing) IN
       /\ at_loc' = [at_loc EXCEPT ![t].idx =
                        IF from_missing THEN at_missing[at_loc[t].ctr + 1] ELSE at_length]
       /\ at_length' = IF from_missing THEN at_length ELSE at_length + 1
    /\ at_pc' = [at_pc EXCEPT ![t] = "p_cid"]
    /\ AtThreadBook(FALSE, TRUE, {})
    /\ UNCHANGED <<at_vec, at_missing, at_counter, at_command_counter, at_empty_count,
                   at_bitfield, at_chan, at_panicked, at_upc, at_command_count,
                   at_cbuffer, at_next, at_calls, at_drained, at_applied>>

\* The command's id: command_counter.fetch_add(1), evaluated before the send.
At_push_cid(t) ==
    /\ at_pc[t] = "p_cid"
    /\ at_loc' = [at_loc EXCEPT ![t].cid = at_command_counter]
    /\ at_command_counter' = at_command_counter + 1
    /\ at_pc' = [at_pc EXCEPT ![t] = "p_send"]
    /\ AtThreadBook(FALSE, TRUE, {})
    /\ UNCHANGED <<at_vec, at_missing, at_counter, at_length, at_empty_count,
                   at_bitfield, at_chan, at_panicked, at_upc, at_command_count,
                   at_cbuffer, at_next, at_calls, at_drained, at_applied>>

\* tx.send(AtomicIndexedCommand::new(id, Add(elem, idx))).
At_push_send(t) ==
    /\ at_pc[t] = "p_send"
    /\ at_chan' = Append(at_chan,
                         AtCmd(at_loc[t].cid, "Add", at_loc[t].elem, at_loc[t].idx))
    /\ at_pc' = [at_pc EXCEPT ![t] = "p_empty"]
    /\ AtThreadBook(FALSE, TRUE, {})
    /\ UNCHANGED <<at_vec, at_missing, at_counter, at_length, at_command_counter,
                   at_empty_count, at_bitfield, at_panicked, at_loc, at_upc,
                   at_command_count, at_cbuffer, at_next, at_calls, at_drained, at_applied>>

\* empty_count.fetch_sub(1) (wrapping); the read guard is dropped.
At_push_empty(t) ==
    /\ at_pc[t] = "p_empty"
    /\ at_empty_count' = at_empty_count - 1
    /\ at_pc' = [at_pc EXCEPT ![t] = "p_bit"]
    /\ AtThreadBook(FALSE, TRUE, {})
    /\ UNCHANGED <<at_vec, at_missing, at_counter, at_length, at_command_counter,
                   at_bitfield, at_chan, at_panicked, at_loc, at_upc,
                   at_command_count, at_cbuffer, at_next, at_calls, at_drained, at_applied>>

\* bitfield.set(idx, true); return idx.
At_push_bit(t) ==
    /\ at_pc[t] = "p_bit"
    /\ at_bitfield' = at_bitfield \cup {at_loc[t].idx}
    /\ at_pc' = [at_pc EXCEPT ![t] = "idle"]
    /\ at_loc' = [at_loc EXCEPT ![t] = AtNoLoc]
    /\ AtThreadBook(FALSE, TRUE, {[elem |-> at_loc[t].elem, idx |-> at_loc[t].idx]})
    /\ UNCHANGED <<at_vec, at_missing, at_counter, at_length, at_command_counter,
                   at_empty_count, at_chan, at_panicked, at_upc, at_command_count,
                   at_cbuffer, at_next, at_calls, at_drained, at_applied>>

\* remove(idx), multi-threaded way: bitfield.get(idx); None when the bit is clear.
At_remove_get(t) ==
    /\ ~at_panicked
    /\ at_pc[t] = "idle"
    /\ at_calls < MaxAtCalls
    /\ \E idx \in 0..MaxAtIdxIn :
        IF idx \in at_bitfield
        THEN /\ at_pc' = [at_pc EXCEPT ![t] = "r_cid"]
             /\ at_loc' = [at_loc EXCEPT ![t] = [AtNoLoc EXCEPT !.idx = idx]]
        ELSE UNCHANGED <<at_pc, at_loc>>
    /\ at_calls' = at_calls + 1
    /\ AtThreadBook(TRUE, FALSE, {})
    /\ UNCHANGED <<at_vec, at_missing, at_counter, at_length, at_command_counter,
                   at_empty_count, at_bitfield, at_chan, at_panicked, at_upc,
                   at_command_count, at_cbuffer, at_next, at_drained, at_applied>>

At_remove_cid(t) ==
    /\ at_pc[t] = "r_cid"
    /\ at_loc' = [at_loc EXCEPT ![t].cid = at_command_counter]
    /\ at_command_counter' = at_command_counter + 1
    /\ at_pc' = [at_pc EXCEPT ![t] = "r_send"]
    /\ AtThreadBook(FALSE, FALSE, {})
    /\ UNCHANGED <<at_vec, at_missing, at_counter, at_length, at_empty_count,
                   at_bitfield, at_chan, at_panicked, at_upc, at_command_count,
                   at_cbuffer, at_next, at_calls, at_drained, at_applied>>

\* tx.send(AtomicIndexedCommand::new(id, Remove(idx))).
At_remove_send(t) ==
    /\ at_pc[t] = "r_send"
    /\ at_chan' = Append(at_chan, AtCmd(at_loc[t].cid, "Remove", NoneVal, at_loc[t].idx))
    /\ at_pc' = [at_pc EXCEPT ![t] = "r_empty"]
    /\ AtThreadBook(FALSE, FALSE, {})
    /\ UNCHANGED <<at_vec, at_missing, at_counter, at_length, at_command_counter,
                   at_empty_count, at_bitfield, at_panicked, at_loc, at_upc,
                   at_command_count, at_cbuffer, at_next, at_calls, at_drained, at_applied>>

\* empty_count.fetch_add(1).
At_remove_empty(t) ==
    /\ at_pc[t] = "r_empty"
    /\ at_empty_count' = at_empty_count + 1
    /\ at_pc' = [at_pc EXCEPT ![t] = "r_bit"]
    /\ AtThreadBook(FALSE, FALSE, {})
    /\ UNCHANGED <<at_vec, at_missing, at_counter, at_length, at_command_counter,
                   at_bitfield, at_chan, at_panicked, at_loc, at_upc,
                   at_command_count, at_cbuffer, at_next, at_calls, at_drained, at_applied>>

\* bitfield.set(idx, false); return Some(()).
At_remove_bit(t) ==
    /\ at_pc[t] = "r_bit"
    /\ at_bitfield' = at_bitfield \ {at_loc[t].idx}
    /\ at_pc' = [at_pc EXCEPT ![t] = "idle"]
    /\ at_loc' = [at_loc EXCEPT ![t] = AtNoLoc]
    /\ AtThreadBook(FALSE, FALSE, {})
    /\ UNCHANGED <<at_vec, at_missing, at_counter, at_length, at_command_counter,
                   at_empty_count, at_chan, at_panicked, at_upc, at_command_count,
                   at_cbuffer, at_next, at_calls, at_drained, at_applied>>

\* push_shove on the creation thread, as a function of the store: push when
\* missing is empty, else pop an index and overwrite that slot (the unwrap
\* panics when the index is out of range).
AtDirectPush(vec, missing, bitfield, elem) ==
    IF missing = <<>>
    THEN [vec |-> Append(vec, elem), missing |-> missing,
          bitfield |-> bitfield \cup {Len(vec)}, idx |-> Len(vec), panic |-> FALSE]
    ELSE LET idx == missing[Len(missing)]
             popped == SubSeq(missing, 1, Len(missing) - 1)
         IN  IF idx >= Len(vec)
             THEN [vec |-> vec, missing |-> popped, bitfield |-> bitfield,
                   idx |-> idx, panic |-> TRUE]
             ELSE [vec |-> [vec EXCEPT ![idx + 1] = elem], missing |-> popped,
                   bitfield |-> bitfield \cup {idx}, idx |-> idx, panic |-> FALSE]

\* The creation-thread push_shove takes the write lock on missing only in
\* its pop branch; it waits while a submitter holds the read guard.
AtPushMayRun == at_missing = <<>> \/ AtReaders = {}

\* push_shove(elem) called directly on the creation thread.
At_owner_push ==
    /\ ~at_panicked
    /\ at_upc = "idle"
    /\ at_next <= MaxAtElems
    /\ AtPushMayRun
    /\ LET r == AtDirectPush(at_vec, at_missing, at_bitfield, at_next) IN
       /\ at_vec' = r.vec
       /\ at_missing' = r.missing
       /\ at_bitfield' = r.bitfield
       /\ at_panicked' = r.panic
    /\ at_next' = at_next + 1
    /\ AtOwnerBook
    /\ UNCHANGED <<at_counter, at_length, at_command_counter, at_empty_count, at_chan,
                   at_pc, at_loc, at_upc, at_command_count, at_cbuffer, at_calls,
                   at_drained, at_applied>>

\* remove(idx) called directly on the creation thread: missing.push(idx),
\* empty_count.fetch_add(1), bitfield.set(idx, false).  The vec is not touched.
At_owner_remove ==
    /\ ~at_panicked
    /\ at_upc = "idle"
    /\ AtReaders = {}
    /\ Len(at_missing) < MaxMissing
    /\ \E idx \in 0..MaxAtIdxIn :
        /\ at_missing' = Append(at_missing, idx)
        /\ at_bitfield' = at_bitfield \ {idx}
    /\ at_empty_count' = at_empty_count + 1
    /\ AtOwnerBook
    /\ UNCHANGED <<at_vec, at_counter, at_length, at_command_counter, at_chan,
                   at_panicked, at_pc, at_loc, at_upc, at_command_count, at_cbuffer,
                   at_next, at_calls, at_drained, at_applied>>

\* update(): command_count = command_counter.load().
At_update_load ==
    /\ ~at_panicked
    /\ at_upc = "idle"
    /\ at_command_count' = at_command_counter
    /\ at_upc' = "u_reset_cc"
    /\ at_phase' = "open"
    /\ at_clean' = (at_phase = "open" /\ at_clean /\ AtMidCall = {})
    /\ at_ret' = IF at_phase = "open" /\ at_clean /\ AtMidCall = {} THEN at_ret ELSE {}
    /\ UNCHANGED <<at_vec, at_missing, at_counter, at_length, at_command_counter,
                   at_empty_count, at_bitfield, at_chan, at_panicked, at_pc, at_loc,
                   at_cbuffer, at_next, at_calls, at_drained, at_applied>>

\* command_counter.store(0).
At_update_reset_cc ==
    /\ at_upc = "u_reset_cc"
    /\ at_command_counter' = 0
    /\ at_upc' = "u_reset_ctr"
    /\ UNCHANGED <<at_vec, at_missing, at_counter, at_length, at_empty_count,
                   at_bitfield, at_chan, at_panicked, at_pc, at_loc, at_command_count,
                   at_cbuffer, at_next, at_calls, at_ret, at_drained, at_applied,
                   at_phase, at_clean>>

\* counter.store(0).
At_update_reset_ctr ==
    /\ at_upc = "u_reset_ctr"
    /\ at_counter' = 0
    /\ at_upc' = "u_recv"
    /\ UNCHANGED <<at_vec, at_missing, at_length, at_command_counter, at_empty_count,
                   at_bitfield, at_chan, at_panicked, at_pc, at_loc, at_command_count,
                   at_cbuffer, at_next, at_calls, at_ret, at_drained, at_applied,
                   at_phase, at_clean>>

\* while command_count > 0 { recv() } : one blocking receive.
At_update_recv ==
    /\ at_upc = "u_recv"
    /\ at_command_count > 0
    /\ at_chan # <<>>
    /\ at_cbuffer' = Append(at_cbuffer, Head(at_chan))
    /\ at_chan' = Tail(at_chan)
    /\ at_command_count' = at_command_count - 1
    /\ UNCHANGED <<at_vec, at_missing, at_counter, at_length, at_command_counter,
                   at_empty_count, at_bitfield, at_panicked, at_pc, at_loc, at_upc,
                   at_next, at_calls, at_ret, at_drained, at_applied, at_phase,
                   at_clean>>

\* cbuffer.sort_by(command_id).
At_update_sort ==
    /\ at_upc = "u_recv"
    /\ at_command_count = 0
    /\ at_drained' = at_cbuffer
    /\ at_cbuffer' = SortBySeq(at_cbuffer)
    /\ at_upc' = "u_apply"
    /\ UNCHANGED <<at_vec, at_missing, at_counter, at_length, at_command_counter,
                   at_empty_count, at_bitfield, at_chan, at_panicked, at_pc, at_loc,
                   at_command_count, at_next, at_calls, at_ret, at_applied, at_phase,
                   at_clean>>

\* for command in cbuffer: Add(elem, id) => self.push_shove(elem).
At_update_apply_add ==
    /\ at_upc = "u_apply"
    /\ at_cbuffer # <<>>
    /\ Head(at_cbuffer).kind = "Add"
    /\ AtPushMayRun
    /\ LET r == AtDirectPush(at_vec, at_missing, at_bitfield, Head(at_cbuffer).elem) IN
       /\ at_vec' = r.vec
       /\ at_missing' = r.missing
       /\ at_bitfield' = r.bitfield
       /\ at_panicked' = r.panic
       /\ at_upc' = IF r.panic THEN "panicked" ELSE at_upc
    /\ at_applied' = Append(at_applied, Head(at_cbuffer).seq)
    /\ at_cbuffer' = Tail(at_cbuffer)
    /\ UNCHANGED <<at_counter, at_length, at_command_counter, at_empty_count, at_chan,
                   at_pc, at_loc, at_command_count, at_next, at_calls, at_ret,
                   at_drained, at_phase, at_clean>>

\* for command in cbuffer: Remove(id) => self.remove(id).
At_update_apply_remove ==
    /\ at_upc = "u_apply"
    /\ at_cbuffer # <<>>
    /\ Head(at_cbuffer).kind = "Remove"
    /\ AtReaders = {}
    /\ at_missing' = Append(at_missing, Head(at_cbuffer).idx)
    /\ at_bitfield' = at_bitfield \ {Head(at_cbuffer).idx}
    /\ at_empty_count' = at_empty_count + 1
    /\ at_applied' = Append(at_applied, Head(at_cbuffer).seq)
    /\ at_cbuffer' = Tail(at_cbuffer)
    /\ UNCHANGED <<at_vec, at_counter, at_length, at_command_counter, at_chan,
                   at_panicked, at_pc, at_loc, at_upc, at_command_count, at_next,
                   at_calls, at_ret, at_drained, at_phase, at_clean>>

\* length.store(vec.len()); update() returns.
At_update_len ==
    /\ at_upc = "u_apply"
    /\ at_cbuffer = <<>>
    /\ at_length' = Len(at_vec)
    /\ at_upc' = "idle"
    /\ at_phase' = "committed"
    /\ at_drained' = <<>>
    /\ at_applied' = <<>>
    /\ UNCHANGED <<at_vec, at_missing, at_counter, at_command_counter, at_empty_count,
                   at_bitfield, at_chan, at_panicked, at_pc, at_loc, at_command_count,
                   at_cbuffer, at_next, at_calls, at_ret, at_clean>>

\* -------------------------------------------------- ConcurrentOrderedVec
\* Submitting threads hold clones (thread_id differs from theirs); the
\* creation thread calls push_shove and remove directly, and update().
CoThreads == 1..NumCoThreads

CoCmd(seq, kind, elem, idx) == [seq |-> seq, kind |-> kind, elem |-> elem, idx |-> idx]

CoNoLoc == [cmd |-> 0, idx |-> 0, elem |-> NoneVal]

\* Threads holding the write guard on `missing` across a send.
CoWriters == {t \in CoThreads : co_pc[t] \in {"p_ow_send", "r_send"}}

CoInit ==
    /\ co_vec = <<>>
    /\ co_missing = <<>>
    /\ co_len = 0
    /\ co_cmd_counter = 0
    /\ co_chan = <<>>
    /\ co_poisoned = FALSE
    /\ co_owner_dead = FALSE
    /\ co_pc = [t \in CoThreads |-> "idle"]
    /\ co_loc = [t \in CoThreads |-> CoNoLoc]
    /\ co_next = 1
    /\ co_calls = 0
    /\ co_drained = <<>>
    /\ co_applied = <<>>

\* push_shove off the creation thread: cmd = cmd_counter.fetch_add(1).
Co_push_cmd(t) ==
    /\ co_pc[t] = "idle"
    /\ co_calls < MaxCoCalls
    /\ co_next <= MaxCoElems
    /\ co_loc' = [co_loc EXCEPT ![t] = [CoNoLoc EXCEPT !.cmd = co_cmd_counter, !.elem = co_next]]
    /\ co_cmd_counter' = co_cmd_counter + 1
    /\ co_next' = co_next + 1
    /\ co_calls' = co_calls + 1
    /\ co_pc' = [co_pc EXCEPT ![t] = "p_check"]
    /\ UNCHANGED <<co_vec, co_missing, co_len, co_chan, co_poisoned, co_owner_dead,
                   co_drained, co_applied>>

\* if self.missing.read().unwrap().is_empty(): the unwrap panics on a
\* poisoned lock; the guard is dropped after the test.
Co_push_check(t) ==
    /\ co_pc[t] = "p_check"
    /\ CoWriters = {}
    /\ co_pc' = [co_pc EXCEPT ![t] = IF co_poisoned THEN "dead"
                                     ELSE IF co_missing = <<>> THEN "p_add_send"
                                     ELSE "p_pop"]
    /\ UNCHANGED <<co_vec, co_missing, co_len, co_cmd_counter, co_chan, co_poisoned,
                   co_owner_dead, co_loc, co_next, co_calls, co_drained, co_applied>>

\* tx.send((Add(elem), cmd)).
Co_push_add_send(t) ==
    /\ co_pc[t] = "p_add_send"
    /\ co_chan' = Append(co_chan, CoCmd(co_loc[t].cmd, "Add", co_loc[t].elem, 0))
    /\ co_pc' = [co_pc EXCEPT ![t] = "p_add_len"]
    /\ UNCHANGED <<co_vec, co_missing, co_len, co_cmd_counter, co_poisoned,
                   co_owner_dead, co_loc, co_next, co_calls, co_drained, co_applied>>

\* self.len.fetch_add(1) is the returned index.
Co_push_add_len(t) ==
    /\ co_pc[t] = "p_add_len"
    /\ co_len' = co_len + 1
    /\ co_pc' = [co_pc EXCEPT ![t] = "idle"]
    /\ co_loc' = [co_loc EXCEPT ![t] = CoNoLoc]
    /\ UNCHANGED <<co_vec, co_missing, co_cmd_counter, co_chan, co_poisoned,
                   co_owner_dead, co_next, co_calls, co_drained, co_applied>>

\* missing.write().unwrap(); idx = missing.pop().unwrap(): the first unwrap
\* panics on a poisoned lock, the second (holding the guard, which poisons
\* the lock) when missing has been emptied since the test.
Co_push_pop(t) ==
    /\ co_pc[t] = "p_pop"
    /\ CoWriters = {}
    /\ IF co_poisoned \/ co_missing = <<>>
       THEN /\ co_pc' = [co_pc EXCEPT ![t] = "dead"]
            /\ co_poisoned' = TRUE
            /\ UNCHANGED <<co_missing, co_loc>>
       ELSE /\ co_pc' = [co_pc EXCEPT ![t] = "p_ow_send"]
            /\ co_loc' = [co_loc EXCEPT ![t].idx = co_missing[Len(co_missing)]]
            /\ co_missing' = SubSeq(co_missing, 1, Len(co_missing) - 1)
            /\ UNCHANGED co_poisoned
    /\ UNCHANGED <<co_vec, co_len, co_cmd_counter, co_chan, co_owner_dead, co_next,
                   co_calls, co_drained, co_applied>>

\* tx.send((OverWrite(elem, idx), cmd)); return idx (the guard is dropped).
Co_push_ow_send(t) ==
    /\ co_pc[t] = "p_ow_send"
    /\ co_chan' = Append(co_chan,
                         CoCmd(co_loc[t].cmd, "OverWrite", co_loc[t].elem, co_loc[t].idx))
    /\ co_pc' = [co_pc EXCEPT ![t] = "idle"]
    /\ co_loc' = [co_loc EXCEPT ![t] = CoNoLoc]
    /\ UNCHANGED <<co_vec, co_missing, co_len, co_cmd_counter, co_poisoned,
                   co_owner_dead, co_next, co_calls, co_drained, co_applied>>

\* remove(idx) off the creation thread: cmd = cmd_counter.fetch_add(1).
Co_remove_cmd(t) ==
    /\ co_pc[t] = "idle"
    /\ co_calls < MaxCoCalls
    /\ \E idx \in 0..MaxCoIdxIn :
        co_loc' = [co_loc EXCEPT ![t] = [CoNoLoc EXCEPT !.cmd = co_cmd_counter, !.idx = idx]]
    /\ co_cmd_counter' = co_cmd_counter + 1
    /\ co_calls' = co_calls + 1
    /\ co_pc' = [co_pc EXCEPT ![t] = "r_push"]
    /\ UNCHANGED <<co_vec, co_missing, co_len, co_chan, co_poisoned, co_owner_dead,
                   co_next, co_drained, co_applied>>

\* missing.write().unwrap().push(idx).
Co_remove_push(t) ==
    /\ co_pc[t] = "r_push"
    /\ CoWriters = {}
    /\ Len(co_missing) < MaxMissing
    /\ IF co_poisoned
       THEN /\ co_pc' = [co_pc EXCEPT ![t] = "dead"]
            /\ UNCHANGED co_missing
       ELSE /\ co_pc' = [co_pc EXCEPT ![t] = "r_send"]
            /\ co_missing' = Append(co_missing, co_loc[t].idx)
    /\ UNCHANGED <<co_vec, co_len, co_cmd_counter, co_chan, co_poisoned, co_owner_dead,
                   co_loc, co_next, co_calls, co_drained, co_applied>>

\* tx.send((Remove(idx), cmd)); return None (the guard is dropped).
Co_remove_send(t) ==
    /\ co_pc[t] = "r_send"
    /\ co_chan' = Append(co_chan, CoCmd(co_loc[t].cmd, "Remove", NoneVal, co_loc[t].idx))
    /\ co_pc' = [co_pc EXCEPT ![t] = "idle"]
    /\ co_loc' = [co_loc EXCEPT ![t] = CoNoLoc]
    /\ UNCHANGED <<co_vec, co_missing, co_len, co_cmd_counter, co_poisoned,
                   co_owner_dead, co_next, co_calls, co_drained, co_applied>>

\* push_shove(elem) on the creation thread.
Co_owner_push ==
    /\ ~co_owner_dead
    /\ CoWriters = {}
    /\ co_next <= MaxCoElems
    /\ co_next' = co_next + 1
    /\ IF co_poisoned
       THEN /\ co_owner_dead' = TRUE
            /\ UNCHANGED <<co_vec, co_missing, co_poisoned>>
       ELSE IF co_missing = <<>>
       THEN /\ co_vec' = Append(co_vec, co_next)
            /\ UNCHANGED <<co_missing, co_poisoned, co_owner_dead>>
       ELSE LET idx == co_missing[Len(co_missing)] IN
            /\ co_missing' = SubSeq(co_missing, 1, Len(co_missing) - 1)
            /\ IF idx >= Len(co_vec)
               THEN /\ co_owner_dead' = TRUE
                    /\ co_poisoned' = TRUE
                    /\ UNCHANGED co_vec
               ELSE /\ co_vec' = [co_vec EXCEPT ![idx + 1] = co_next]
                    /\ UNCHANGED <<co_poisoned, co_owner_dead>>
    /\ UNCHANGED <<co_len, co_cmd_counter, co_chan, co_pc, co_loc, co_calls,
                   co_drained, co_applied>>

\* remove(idx) on the creation thread: cmd_counter.fetch_add(1),
\* missing.write().unwrap().push(idx), then vec.get_mut(idx)? and take.
Co_owner_remove ==
    /\ ~co_owner_dead
    /\ CoWriters = {}
    /\ Len(co_missing) < MaxMissing
    /\ co_cmd_counter' = co_cmd_counter + 1
    /\ IF co_poisoned
       THEN /\ co_owner_dead' = TRUE
            /\ UNCHANGED <<co_vec, co_missing>>
       ELSE \E idx \in 0..MaxCoIdxIn :
            /\ co_missing' = Append(co_missing, idx)
            /\ co_vec' = IF idx < Len(co_vec) THEN [co_vec EXCEPT ![idx + 1] = NoneVal]
                         ELSE co_vec
            /\ UNCHANGED co_owner_dead
    /\ UNCHANGED <<co_len, co_chan, co_poisoned, co_pc, co_loc, co_next, co_calls,
                   co_drained, co_applied>>

\* The loop of update() over the sorted commands, up to the first panic
\* (vec.get_mut(idx).unwrap() on an index out of range).
RECURSIVE CoApply(_, _, _)
CoApply(vec, cmds, applied) ==
    IF cmds = <<>> THEN [vec |-> vec, applied |-> applied, panic |-> FALSE]
    ELSE LET c == Head(cmds)
             done == Append(applied, c.seq)
         IN  IF c.kind = "Add"
             THEN CoApply(Append(vec, c.elem), Tail(cmds), done)
             ELSE IF c.idx >= Len(vec)
             THEN [vec |-> vec, applied |-> done, panic |-> TRUE]
             ELSE CoApply([vec EXCEPT ![c.idx + 1] = c.elem], Tail(cmds), done)

\* update(): try_iter().collect(), sort_by the sequence number, apply.
Co_update ==
    /\ ~co_owner_dead
    /\ LET r == CoApply(co_vec, SortBySeq(co_chan), <<>>) IN
       /\ co_vec' = r.vec
       /\ co_applied' = r.applied
       /\ co_owner_dead' = r.panic
    /\ co_drained' = co_chan
    /\ co_chan' = <<>>
    /\ UNCHANGED <<co_missing, co_len, co_cmd_counter, co_poisoned, co_pc, co_loc,
                   co_next, co_calls>>

\* ----------------------------------------------- HalfConcurrentOrderedVec
HcThreads == 1..NumHcThreads

HcCmd(seq, kind, elem, idx) == [seq |-> seq, kind |-> kind, elem |-> elem, idx |-> idx]

HcNoLoc == [original |-> {}, batch |-> 0, idx |-> 0, kind |-> "", seq |-> 0, elem |-> NoneVal,
            val |-> {}, c |-> 0]

\* u64::MAX as a set of bits.
HcMax == 0..(BatchBits - 1)

\* Threads holding the read guard on `batches`.
HcReaders == {t \in HcThreads : hc_pc[t] \in {"f_store", "r_ctr", "r_send", "r_store",
                                               "g_for", "g_while"}}

\* Number of low bits set before the first clear one (the while loop of
\* fetch_find_flip, shifting right by one).
TrailingOnes(bits) ==
    IF bits = HcMax THEN BatchBits
    ELSE CHOOSE c \in HcMax : c \notin bits /\ \A b \in 0..(c - 1) : b \in bits

\* filled(): every batch is u64::MAX (so also when there is no batch).
HcFilled(batches) == \A i \in 1..Len(batches) : batches[i] = HcMax

HcInit ==
    /\ hc_batches = <<>>
    /\ hc_vec = <<>>
    /\ hc_ctr = 0
    /\ hc_chan = <<>>
    /\ hc_dead = FALSE
    /\ hc_pc = [t \in HcThreads |-> "idle"]
    /\ hc_loc = [t \in HcThreads |-> HcNoLoc]
    /\ hc_next = 1
    /\ hc_calls = 0
    /\ hc_drained = <<>>
    /\ hc_applied = <<>>

\* push_shove -> fetch_find_flip: under the read guard, find the first batch
\* that is not u64::MAX and load it.
Hc_push_find(t) ==
    /\ hc_pc[t] = "idle"
    /\ hc_calls < MaxHcCalls
    /\ hc_next <= MaxHcElems
    /\ LET free == {i \in 1..Len(hc_batches) : hc_batches[i] # HcMax} IN
       IF free = {}
       THEN /\ hc_pc' = [hc_pc EXCEPT ![t] = "f_push"]
            /\ hc_loc' = [hc_loc EXCEPT ![t] = [HcNoLoc EXCEPT !.elem = hc_next]]
       ELSE LET i == CHOOSE i \in free : \A j \in free : i <= j IN
            /\ hc_pc' = [hc_pc EXCEPT ![t] = "f_store"]
            /\ hc_loc' = [hc_loc EXCEPT ![t] = [HcNoLoc EXCEPT !.elem = hc_next,
                                                             !.batch = i,
                                                             !.original = hc_batches[i]]]
    /\ hc_next' = hc_next + 1
    /\ hc_calls' = hc_calls + 1
    /\ UNCHANGED <<hc_batches, hc_vec, hc_ctr, hc_chan, hc_dead, hc_drained, hc_applied>>

\* atomic.store(original | (1 << c)); return c + (batches.len()-1) * 64.
Hc_push_store(t) ==
    /\ hc_pc[t] = "f_store"
    /\ LET c == TrailingOnes(hc_loc[t].original) IN
       /\ hc_batches' = [hc_batches EXCEPT ![hc_loc[t].batch] = hc_loc[t].original \cup {c}]
       /\ hc_loc' = [hc_loc EXCEPT ![t].idx = c + (Len(hc_batches) - 1) * BatchBits]
    /\ hc_pc' = [hc_pc EXCEPT ![t] = "filled"]
    /\ UNCHANGED <<hc_vec, hc_ctr, hc_chan, hc_dead, hc_next, hc_calls, hc_drained,
                   hc_applied>>

\* No free bit was found: under the write guard, batches.push(AtomicU64::new(1));
\* return (batches.len() - 1) * 64.
Hc_push_new_batch(t) ==
    /\ hc_pc[t] = "f_push"
    /\ HcReaders = {}
    /\ hc_batches' = Append(hc_batches, {0})
    /\ hc_loc' = [hc_loc EXCEPT ![t].idx = Len(hc_batches) * BatchBits]
    /\ hc_pc' = [hc_pc EXCEPT ![t] = "filled"]
    /\ UNCHANGED <<hc_vec, hc_ctr, hc_chan, hc_dead, hc_next, hc_calls, hc_drained,
                   hc_applied>>

\* if let Some(_) = self.filled(): Add when every batch is full, else OverWrite.
Hc_push_filled(t) ==
    /\ hc_pc[t] = "filled"
    /\ hc_loc' = [hc_loc EXCEPT ![t].kind = IF HcFilled(hc_batches) THEN "Add"
                                            ELSE "OverWrite"]
    /\ hc_pc' = [hc_pc EXCEPT ![t] = "p_ctr"]
    /\ UNCHANGED <<hc_batches, hc_vec, hc_ctr, hc_chan, hc_dead, hc_next, hc_calls,
                   hc_drained, hc_applied>>

\* send_command: ctr = self.ctr.fetch_add(1).
Hc_push_ctr(t) ==
    /\ hc_pc[t] = "p_ctr"
    /\ hc_loc' = [hc_loc EXCEPT ![t].seq = hc_ctr]
    /\ hc_ctr' = hc_ctr + 1
    /\ hc_pc' = [hc_pc EXCEPT ![t] = "p_send"]
    /\ UNCHANGED <<hc_batches, hc_vec, hc_chan, hc_dead, hc_next, hc_calls,
                   hc_drained, hc_applied>>

\* send_command: self.tx.send((ctr, command)); push_shove returns idx.
Hc_push_send(t) ==
    /\ hc_pc[t] = "p_send"
    /\ hc_chan' = Append(hc_chan, HcCmd(hc_loc[t].seq, hc_loc[t].kind, hc_loc[t].elem,
                                        hc_loc[t].idx))
    /\ hc_pc' = [hc_pc EXCEPT ![t] = "idle"]
    /\ hc_loc' = [hc_loc EXCEPT ![t] = HcNoLoc]
    /\ UNCHANGED <<hc_batches, hc_vec, hc_ctr, hc_dead, hc_next, hc_calls, hc_drained,
                   hc_applied>>

\* remove(idx): batches.get(sub)?.load(); None when there is no such batch
\* or the bit is clear.
Hc_remove_load(t) ==
    /\ hc_pc[t] = "idle"
    /\ hc_calls < MaxHcCalls
    /\ \E idx \in 0..MaxHcIdxIn :
        LET sub == idx \div BatchBits
            bit == idx % BatchBits
        IN  IF sub < Len(hc_batches) /\ bit \in hc_batches[sub + 1]
            THEN /\ hc_pc' = [hc_pc EXCEPT ![t] = "r_ctr"]
                 /\ hc_loc' = [hc_loc EXCEPT ![t] = [HcNoLoc EXCEPT !.idx = idx,
                                                        !.batch = sub + 1,
                                                        !.original = hc_batches[sub + 1]]]
            ELSE UNCHANGED <<hc_pc, hc_loc>>
    /\ hc_calls' = hc_calls + 1
    /\ UNCHANGED <<hc_batches, hc_vec, hc_ctr, hc_chan, hc_dead, hc_next, hc_drained,
                   hc_applied>>

Hc_remove_ctr(t) ==
    /\ hc_pc[t] = "r_ctr"
    /\ hc_loc' = [hc_loc EXCEPT ![t].seq = hc_ctr]
    /\ hc_ctr' = hc_ctr + 1
    /\ hc_pc' = [hc_pc EXCEPT ![t] = "r_send"]
    /\ UNCHANGED <<hc_batches, hc_vec, hc_chan, hc_dead, hc_next, hc_calls,
                   hc_drained, hc_applied>>

\* send_command(Command::OverWrite(None, idx)).
Hc_remove_send(t) ==
    /\ hc_pc[t] = "r_send"
    /\ hc_chan' = Append(hc_chan, HcCmd(hc_loc[t].seq, "OverWrite", NoneVal, hc_loc[t].idx))
    /\ hc_pc' = [hc_pc EXCEPT ![t] = "r_store"]
    /\ UNCHANGED <<hc_batches, hc_vec, hc_ctr, hc_dead, hc_loc, hc_next, hc_calls,
                   hc_drained, hc_applied>>

\* batches.get(sub)?.store(current_val & !(1 << bit)); return Some(()).
Hc_remove_store(t) ==
    /\ hc_pc[t] = "r_store"
    /\ hc_batches' = [hc_batches EXCEPT ![hc_loc[t].batch] =
                          hc_loc[t].original \ {hc_loc[t].idx % BatchBits}]
    /\ hc_pc' = [hc_pc EXCEPT ![t] = "idle"]
    /\ hc_loc' = [hc_loc EXCEPT ![t] = HcNoLoc]
    /\ UNCHANGED <<hc_vec, hc_ctr, hc_chan, hc_dead, hc_next, hc_calls, hc_drained,
                   hc_applied>>

\* The loop of update() over the sorted commands: the id is printed, then
\* the command applied; vec.get_mut(idx).unwrap() panics out of range.
RECURSIVE HcApply(_, _, _)
HcApply(vec, cmds, applied) ==
    IF cmds = <<>> THEN [vec |-> vec, applied |-> applied, panic |-> FALSE]
    ELSE LET c == Head(cmds)
             done == Append(applied, c.seq)
         IN  IF c.kind = "Add"
             THEN HcApply(Append(vec, c.elem), Tail(cmds), done)
             ELSE IF c.idx >= Len(vec)
             THEN [vec |-> vec, applied |-> done, panic |-> TRUE]
             ELSE HcApply([vec EXCEPT ![c.idx + 1] = c.elem], Tail(cmds), done)

\* update(): try_iter().collect(), sort_by the sequence number, apply.
Hc_update ==
    /\ ~hc_dead
    /\ LET r == HcApply(hc_vec, SortBySeq(hc_chan), <<>>) IN
       /\ hc_vec' = r.vec
       /\ hc_applied' = r.applied
       /\ hc_dead' = r.panic
    /\ hc_drained' = hc_chan
    /\ hc_chan' = <<>>
    /\ UNCHANGED <<hc_batches, hc_ctr, hc_pc, hc_loc, hc_next, hc_calls>>

\* ------------------------------------------------- the handle codec alone
\* A program that builds IndexPair::new(index, version), encodes it with
\* to_id and decodes the result with from_id.
CdInputs == [index : 0..MaxCdIdx, version : 0..MaxCdVer]

CdInit(pair) ==
    /\ cd_pair = pair
    /\ cd_id = NoId
    /\ cd_out = IndexPairNew(0, 0)
    /\ cd_pc = "new"

\* id = to_id(pair): panics under overflow checks.
Cd_to_id ==
    /\ cd_pc = "new"
    /\ IF to_id_panics
       THEN /\ cd_pc' = "panicked"
            /\ UNCHANGED cd_id
       ELSE /\ cd_pc' = "encoded"
            /\ cd_id' = to_id(cd_pair)
    /\ UNCHANGED <<cd_pair, cd_out>>

\* out = from_id(id).
Cd_from_id ==
    /\ cd_pc = "encoded"
    /\ cd_out' = from_id(cd_id)
    /\ cd_pc' = "decoded"
    /\ UNCHANGED <<cd_pair, cd_id>>

\* --------------------------------------------------------- specifications
InitStores ==
    /\ overflow_checks \in BOOLEAN
    /\ OVInit
    /\ ov_out = <<>>
    /\ ov_hist = OVHistInit
    /\ ShInit
    /\ sh_last = ShLast("new", NoId)
    /\ AtInit
    /\ at_hist = AtHistInit
    /\ CoInit
    /\ co_hist = <<>>
    /\ HcInit
    /\ log_container \in {"AtomicIndexedOrderedVec", "ConcurrentOrderedVec",
                          "HalfConcurrentOrderedVec"}

InitAll == InitStores /\ CdInit(IndexPairNew(0, 0))

\* OrderedVec alone.
InitOV == InitAll /\ log_container = "AtomicIndexedOrderedVec"

FrameOV == UNCHANGED <<overflow_checks, shVars, atVars, coVars, hcVars, log_container,
                       cdVars, ovqVars,
          shqVars, histVars>>

NextOV ==
    \/ OV_push /\ FrameOV
    \/ OV_shove /\ FrameOV
    \/ OV_remove /\ FrameOV
    \/ OV_remove_index /\ FrameOV
    \/ OV_clear /\ FrameOV

SpecOV == InitOV /\ [][NextOV]_vars

\* ShareableOrderedVec alone: reserving threads and the owner.
InitSh == InitAll /\ log_container = "AtomicIndexedOrderedVec"

FrameSh == UNCHANGED <<overflow_checks, ovVars, atVars, coVars, hcVars, log_container,
                       cdVars, ovqVars,
          shqVars, histVars>>

NextSh ==
    \/ (\E t \in ShThreads : Sh_reserve_ctr(t)) /\ FrameSh
    \/ (\E t \in ShThreads : Sh_reserve_finish(t)) /\ FrameSh
    \/ Sh_insert_reserved /\ FrameSh
    \/ Sh_insert /\ FrameSh
    \/ Sh_remove /\ FrameSh
    \/ Sh_remove_index /\ FrameSh
    \/ Sh_clear /\ FrameSh

SpecSh == InitSh /\ [][NextSh]_vars

\* AtomicIndexedOrderedVec alone: submitting threads and the creation thread.
\* It makes no handles, so the build's overflow checks play no part.
InitAt == InitAll /\ ~overflow_checks /\ log_container = "AtomicIndexedOrderedVec"

FrameAt == UNCHANGED <<overflow_checks, ovVars, shVars, coVars, hcVars, log_container,
                       cdVars, ovqVars,
          shqVars, histVars>>

NextAt ==
    \/ (\E t \in AtThreads : At_push_ctr(t)) /\ FrameAt
    \/ (\E t \in AtThreads : At_push_idx(t)) /\ FrameAt
    \/ (\E t \in AtThreads : At_push_cid(t)) /\ FrameAt
    \/ (\E t \in AtThreads : At_push_send(t)) /\ FrameAt
    \/ (\E t \in AtThreads : At_push_empty(t)) /\ FrameAt
    \/ (\E t \in AtThreads : At_push_bit(t)) /\ FrameAt
    \/ (\E t \in AtThreads : At_remove_get(t)) /\ FrameAt
    \/ (\E t \in AtThreads : At_remove_cid(t)) /\ FrameAt
    \/ (\E t \in AtThreads : At_remove_send(t)) /\ FrameAt
    \/ (\E t \in AtThreads : At_remove_empty(t)) /\ FrameAt
    \/ (\E t \in AtThreads : At_remove_bit(t)) /\ FrameAt
    \/ At_owner_push /\ FrameAt
    \/ At_owner_remove /\ FrameAt
    \/ At_update_load /\ FrameAt
    \/ At_update_reset_cc /\ FrameAt
    \/ At_update_reset_ctr /\ FrameAt
    \/ At_update_recv /\ FrameAt
    \/ At_update_sort /\ FrameAt
    \/ At_update_apply_add /\ FrameAt
    \/ At_update_apply_remove /\ FrameAt
    \/ At_update_len /\ FrameAt

SpecAt == InitAt /\ [][NextAt]_vars

\* ConcurrentOrderedVec alone.
InitCo == InitAll /\ ~overflow_checks /\ log_container = "ConcurrentOrderedVec"

FrameCo == UNCHANGED <<overflow_checks, ovVars, shVars, atVars, hcVars, log_container,
                       cdVars, ovqVars,
          shqVars, histVars>>

NextCo ==
    \/ (\E t \in CoThreads : Co_push_cmd(t)) /\ FrameCo
    \/ (\E t \in CoThreads : Co_push_check(t)) /\ FrameCo
    \/ (\E t \in CoThreads : Co_push_add_send(t)) /\ FrameCo
    \/ (\E t \in CoThreads : Co_push_add_len(t)) /\ FrameCo
    \/ (\E t \in CoThreads : Co_push_pop(t)) /\ FrameCo
    \/ (\E t \in CoThreads : Co_push_ow_send(t)) /\ FrameCo
    \/ (\E t \in CoThreads : Co_remove_cmd(t)) /\ FrameCo
    \/ (\E t \in CoThreads : Co_remove_push(t)) /\ FrameCo
    \/ (\E t \in CoThreads : Co_remove_send(t)) /\ FrameCo
    \/ Co_owner_push /\ FrameCo
    \/ Co_owner_remove /\ FrameCo
    \/ Co_update /\ FrameCo

SpecCo == InitCo /\ [][NextCo]_vars

\* HalfConcurrentOrderedVec alone.
InitHc == InitAll /\ ~overflow_checks /\ log_container = "HalfConcurrentOrderedVec"

FrameHc == UNCHANGED <<overflow_checks, ovVars, shVars, atVars, coVars, log_container,
                       cdVars, ovqVars,
          shqVars, histVars>>

NextHc ==
    \/ (\E t \in HcThreads : Hc_push_find(t)) /\ FrameHc
    \/ (\E t \in HcThreads : Hc_push_store(t)) /\ FrameHc
    \/ (\E t \in HcThreads : Hc_push_new_batch(t)) /\ FrameHc
    \/ (\E t \in HcThreads : Hc_push_filled(t)) /\ FrameHc
    \/ (\E t \in HcThreads : Hc_push_ctr(t)) /\ FrameHc
    \/ (\E t \in HcThreads : Hc_push_send(t)) /\ FrameHc
    \/ (\E t \in HcThreads : Hc_remove_load(t)) /\ FrameHc
    \/ (\E t \in HcThreads : Hc_remove_ctr(t)) /\ FrameHc
    \/ (\E t \in HcThreads : Hc_remove_send(t)) /\ FrameHc
    \/ (\E t \in HcThreads : Hc_remove_store(t)) /\ FrameHc
    \/ Hc_update /\ FrameHc

SpecHc == InitHc /\ [][NextHc]_vars

\* The three containers with a deferred command log: the program builds one
\* of them, submitting threads send commands, the creation thread commits.
InitLog == InitAll /\ ~overflow_checks

NextLog ==
    \/ log_container = "AtomicIndexedOrderedVec" /\ (\E t \in AtThreads : At_push_ctr(t)) /\ FrameAt
    \/ log_container = "AtomicIndexedOrderedVec" /\ (\E t \in AtThreads : At_push_idx(t)) /\ FrameAt
    \/ log_container = "AtomicIndexedOrderedVec" /\ (\E t \in AtThreads : At_push_cid(t)) /\ FrameAt
    \/ log_container = "AtomicIndexedOrderedVec" /\ (\E t \in AtThreads : At_push_send(t)) /\ FrameAt
    \/ log_container = "AtomicIndexedOrderedVec" /\ (\E t \in AtThreads : At_push_empty(t)) /\ FrameAt
    \/ log_container = "AtomicIndexedOrderedVec" /\ (\E t \in AtThreads : At_push_bit(t)) /\ FrameAt
    \/ log_container = "AtomicIndexedOrderedVec" /\ (\E t \in AtThreads : At_remove_get(t)) /\ FrameAt
    \/ log_container = "AtomicIndexedOrderedVec" /\ (\E t \in AtThreads : At_remove_cid(t)) /\ FrameAt
    \/ log_container = "AtomicIndexedOrderedVec" /\ (\E t \in AtThreads : At_remove_send(t)) /\ FrameAt
    \/ log_container = "AtomicIndexedOrderedVec" /\ (\E t \in AtThreads : At_remove_empty(t)) /\ FrameAt
    \/ log_container = "AtomicIndexedOrderedVec" /\ (\E t \in AtThreads : At_remove_bit(t)) /\ FrameAt
    \/ log_container = "AtomicIndexedOrderedVec" /\ At_owner_push /\ FrameAt
    \/ log_container = "AtomicIndexedOrderedVec" /\ At_owner_remove /\ FrameAt
    \/ log_container = "AtomicIndexedOrderedVec" /\ At_update_load /\ FrameAt
    \/ log_container = "AtomicIndexedOrderedVec" /\ At_update_reset_cc /\ FrameAt
    \/ log_container = "AtomicIndexedOrderedVec" /\ At_update_reset_ctr /\ FrameAt
    \/ log_container = "AtomicIndexedOrderedVec" /\ At_update_recv /\ FrameAt
    \/ log_container = "AtomicIndexedOrderedVec" /\ At_update_sort /\ FrameAt
    \/ log_container = "AtomicIndexedOrderedVec" /\ At_update_apply_add /\ FrameAt
    \/ log_container = "AtomicIndexedOrderedVec" /\ At_update_apply_remove /\ FrameAt
    \/ log_container = "AtomicIndexedOrderedVec" /\ At_update_len /\ FrameAt
    \/ log_container = "ConcurrentOrderedVec" /\ (\E t \in CoThreads : Co_push_cmd(t)) /\ FrameCo
    \/ log_container = "ConcurrentOrderedVec" /\ (\E t \in CoThreads : Co_push_check(t)) /\ FrameCo
    \/ log_container = "ConcurrentOrderedVec" /\ (\E t \in CoThreads : Co_push_add_send(t)) /\ FrameCo
    \/ log_container = "ConcurrentOrderedVec" /\ (\E t \in CoThreads : Co_push_add_len(t)) /\ FrameCo
    \/ log_container = "ConcurrentOrderedVec" /\ (\E t \in CoThreads : Co_push_pop(t)) /\ FrameCo
    \/ log_container = "ConcurrentOrderedVec" /\ (\E t \in CoThreads : Co_push_ow_send(t)) /\ FrameCo
    \/ log_container = "ConcurrentOrderedVec" /\ (\E t \in CoThreads : Co_remove_cmd(t)) /\ FrameCo
    \/ log_container = "ConcurrentOrderedVec" /\ (\E t \in CoThreads : Co_remove_push(t)) /\ FrameCo
    \/ log_container = "ConcurrentOrderedVec" /\ (\E t \in CoThreads : Co_remove_send(t)) /\ FrameCo
    \/ log_container = "ConcurrentOrderedVec" /\ Co_owner_push /\ FrameCo
    \/ log_container = "ConcurrentOrderedVec" /\ Co_owner_remove /\ FrameCo
    \/ log_container = "ConcurrentOrderedVec" /\ Co_update /\ FrameCo
    \/ log_container = "HalfConcurrentOrderedVec" /\ (\E t \in HcThreads : Hc_push_find(t)) /\ FrameHc
    \/ log_container = "HalfConcurrentOrderedVec" /\ (\E t \in HcThreads : Hc_push_store(t)) /\ FrameHc
    \/ log_container = "HalfConcurrentOrderedVec" /\ (\E t \in HcThreads : Hc_push_new_batch(t)) /\ FrameHc
    \/ log_container = "HalfConcurrentOrderedVec" /\ (\E t \in HcThreads : Hc_push_filled(t)) /\ FrameHc
    \/ log_container = "HalfConcurrentOrderedVec" /\ (\E t \in HcThreads : Hc_push_ctr(t)) /\ FrameHc
    \/ log_container = "HalfConcurrentOrderedVec" /\ (\E t \in HcThreads : Hc_push_send(t)) /\ FrameHc
    \/ log_container = "HalfConcurrentOrderedVec" /\ (\E t \in HcThreads : Hc_remove_load(t)) /\ FrameHc
    \/ log_container = "HalfConcurrentOrderedVec" /\ (\E t \in HcThreads : Hc_remove_ctr(t)) /\ FrameHc
    \/ log_container = "HalfConcurrentOrderedVec" /\ (\E t \in HcThreads : Hc_remove_send(t)) /\ FrameHc
    \/ log_container = "HalfConcurrentOrderedVec" /\ (\E t \in HcThreads : Hc_remove_store(t)) /\ FrameHc
    \/ log_container = "HalfConcurrentOrderedVec" /\ Hc_update /\ FrameHc

SpecLog == InitLog /\ [][NextLog]_vars

OVLive(v) == \E i \in 1..Len(ov_vec) : ov_vec[i].val = v

\* C7 (position stability): a remove(h) with h # h', or a push_shove, leaves
\* get(h') = Some(v') for every handle h' that resolved to Some(v') before.
C7_PositionStability ==
    [][ov_last'.op \in {"remove", "push_shove"}
        => \A h \in IdInputs :
             (ov_get(h) # NoneVal /\ ~(ov_last'.op = "remove" /\ ov_last'.id = h))
                => GetIn(ov_vec', h) = ov_get(h)]_vars

\* C8 (round trip): right after h = push_shove(v) returned, get(h) = Some(v).
C8_RoundTrip ==
    ov_last.op = "push_shove" => ov_get(ov_last.id) = ov_last.val

\* C9 (tombstone invalidation): for a handle h returned by push_shove(v) whose
\* element is still stored, remove(h) returns Some(v) and get(h) is None right
\* after; and get(h) is still None after a following push_shove that reuses
\* the index.
C9_TombstoneInvalidation ==
    [][/\ \A v \in 1..Len(ov_handles) :
            (OVLive(v) /\ ov_last'.op = "remove" /\ ov_last'.id = ov_handles[v])
               => (ov_last'.val = v /\ GetIn(ov_vec', ov_handles[v]) = NoneVal)
       /\ (/\ ov_last.op = "remove"
           /\ ov_last.val # NoneVal
           /\ ov_last'.op = "push_shove"
           /\ ov_last'.idx = ov_last.idx)
               => GetIn(ov_vec', ov_last.id) = NoneVal]_vars

\* C10 (handle uniqueness): over any sequence of push_shove and remove calls,
\* every handle returned by push_shove differs from every earlier one.
C10_HandleUniqueness ==
    ov_ops \subseteq {"push_shove", "remove"}
        => \A i, j \in 1..Len(ov_handles) : i # j => ov_handles[i] # ov_handles[j]

\* ---------------------------------------- claims on ShareableOrderedVec
\* No owner call other than inserts of reserved handles has run in the epoch
\* and no reserved handle has been inserted yet: sh_granted holds what the
\* epoch's get_next_id_increment calls returned against the epoch's snapshot.
ShOnlyReservations ==
    /\ sh_epoch.clean
    /\ \A k \in 1..Len(sh_granted) : sh_granted[k].val = NoneVal

\* C1: two calls of get_next_id_increment never return the same handle.
C1_DistinctReservations ==
    \A i, j \in 1..Len(sh_granted) : i # j => sh_granted[i].id # sh_granted[j].id

\* C2: when the handles h_1..h_N were reserved in one epoch and insert(h_i, v_i)
\* has then been applied for every i (in any order), get(h_i) = Some(v_i) for
\* every i.
C2_ReservedInsertsResolve ==
    (/\ sh_granted # <<>>
     /\ ShMidCall = {}
     /\ ShAllInserted
     /\ sh_epoch.clean
     /\ ~sh_epoch.mixed)
        => \A k \in 1..Len(sh_granted) : sh_get(sh_granted[k].id) = sh_granted[k].val

\* C4: with m = len(missing) and L = length at the start of the epoch, the
\* reservation with ordinal i gets index missing[m - 1 - i] when i < m and
\* index L + (i - m) otherwise.
C4_OrdinalMapping ==
    ShOnlyReservations
        => \A k \in 1..Len(sh_granted) :
             LET i == sh_granted[k].ord
                 m == Len(sh_epoch.m0)
             IN  from_id(sh_granted[k].id).index =
                     IF i < m THEN sh_epoch.m0[m - i] ELSE sh_epoch.L0 + (i - m)

\* C5: the handle returned for a reservation that targets a tombstone carries
\* that slot's current generation plus one; the handle returned for a fresh
\* append index carries generation 0.
C5_ReservedGeneration ==
    ShOnlyReservations
        => \A k \in 1..Len(sh_granted) :
             LET g == sh_granted[k] IN
             IF g.index < Len(sh_vec)
             THEN sh_vec[g.index + 1].ver # NoVer
                     => from_id(g.id).version = sh_vec[g.index + 1].ver + 1
             ELSE from_id(g.id).version = 0

\* ------------------------------------------------ claims on the command logs
\* The sequence numbers `applied` are, in order, the smallest ones of the
\* batch `drained`: the i-th applied command is the i-th of the batch in
\* ascending sequence number.
LogInSeqOrder(drained, applied) ==
    /\ Len(applied) <= Len(drained)
    /\ \A i \in 1..Len(applied) :
        /\ \E j \in 1..Len(drained) : drained[j].seq = applied[i]
        /\ Cardinality({j \in 1..Len(drained) : drained[j].seq < applied[i]}) <= i - 1
        /\ Cardinality({j \in 1..Len(drained) : drained[j].seq <= applied[i]}) >= i

\* C6: within one update() of AtomicIndexedOrderedVec, ConcurrentOrderedVec
\* and HalfConcurrentOrderedVec, the drained commands are applied in
\* ascending sequence number, whatever the order they arrived in.
C6_AppliedInSequenceOrder ==
    /\ LogInSeqOrder(at_drained, at_applied)
    /\ LogInSeqOrder(co_drained, co_applied)
    /\ LogInSeqOrder(hc_drained, hc_applied)

\* C6 witness: an update() has applied two commands that arrived on the
\* channel in descending sequence number.
C6_Witness ==
    /\ Len(co_drained) >= 2
    /\ co_drained[1].seq > co_drained[2].seq
    /\ Len(co_applied) = Len(co_drained)

\* ------------------------------------------ further claims on OrderedVec
\* C11: a push_shove with missing non-empty stores the value at the index on
\* top of missing, returns the handle (that index, previous generation + 1)
\* and pops missing; with missing empty it appends a slot at index
\* len(slots) and returns the handle (that index, generation 0).
C11_PushShoveEffect ==
    [][ov_next' # ov_next =>
         /\ ov_last'.op = "push_shove"
         /\ IF ov_missing # <<>>
            THEN LET index == ov_missing[Len(ov_missing)] IN
                 /\ index < Len(ov_vec)
                 /\ ov_vec' = [ov_vec EXCEPT ![index + 1] =
                                   Slot(ov_next, ov_vec[index + 1].ver + 1)]
                 /\ from_id(ov_last'.id) =
                        IndexPairNew(index, ov_vec[index + 1].ver + 1)
                 /\ ov_missing' = SubSeq(ov_missing, 1, Len(ov_missing) - 1)
            ELSE /\ ov_vec' = Append(ov_vec, Slot(ov_next, 0))
                 /\ from_id(ov_last'.id) = IndexPairNew(Len(ov_vec), 0)
                 /\ ov_missing' = ov_missing]_vars

\* Number of occurrences of x in the sequence q.
Occurrences(q, x) == Cardinality({k \in 1..Len(q) : q[k] = x})

\* C12: in every reachable state missing contains each index whose slot
\* value is None exactly once, and no other index.
C12_MissingIsTheSetOfEmptySlots ==
    /\ \A k \in 1..Len(ov_missing) :
          /\ ov_missing[k] < Len(ov_vec)
          /\ ov_vec[ov_missing[k] + 1].val = NoneVal
    /\ \A i \in 0..(Len(ov_vec) - 1) :
          ov_vec[i + 1].val = NoneVal => Occurrences(ov_missing, i) = 1

\* A handle that is stale or invalid for the store: its index is out of
\* range or the slot's stored generation differs from the handle's.
OVStale(id) ==
    LET pair == from_id(id) IN
    \/ pair.index >= Len(ov_vec)
    \/ pair.version # ov_vec[pair.index + 1].ver

ShStale(id) ==
    LET pair == from_id(id) IN
    \/ pair.index >= Len(sh_vec)
    \/ pair.version # sh_vec[pair.index + 1].ver

\* C13: remove with a stale or invalid handle returns None and leaves the
\* slots and the missing stack as they were, on OrderedVec and on
\* ShareableOrderedVec (where a remove is the step that pushes the handle's
\* index onto missing).
C13_StaleRemoveIsNoOp ==
    [][/\ (ov_last'.op = "remove" /\ OVStale(ov_last'.id))
            => (ov_last'.val = NoneVal /\ ov_vec' = ov_vec /\ ov_missing' = ov_missing)
       /\ \A id \in ShIdInputs :
            ShStale(id) => ~(/\ sh_missing' = Append(sh_missing, from_id(id).index)
                             /\ sh_vec' = sh_vec
                             /\ sh_counter' = sh_counter)]_vars

\* C14: an insert (the steps that consume an element, sh_next) never changes
\* a slot that holds a value: the slot keeps its value and its generation,
\* and an insert that stores nothing has failed with a panic.
C14_InsertDoesNotOverwrite ==
    [][sh_next' # sh_next =>
         /\ \A i \in 1..Len(sh_vec) :
               sh_vec[i].val # NoneVal => (Len(sh_vec') >= i /\ sh_vec'[i] = sh_vec[i])
         /\ sh_vec' = sh_vec => sh_panicked']_vars

\* The slots that hold a value, and the slots that hold none.
ShOccupied == {i \in 1..Len(sh_vec) : sh_vec[i].val # NoneVal}

ShFree == {i \in 1..Len(sh_vec) : sh_vec[i].val = NoneVal}

\* C15: the insert that completes an epoch (every handle reserved in it is
\* now inserted) leaves count() equal to the number of occupied slots and
\* count_invalid() equal to the number of free slots.
C15_CountsAfterEpoch ==
    [][(~ShAllInserted /\ ShAllInserted' /\ ShMidCall' = {} /\ ~sh_panicked')
         => /\ sh_count' = Cardinality(ShOccupied')
            /\ sh_count_invalid' = Cardinality(ShFree')]_vars

\* ----------------------------------- further claims on the command logs
\* update() is between its counter.store(0) and its final length.store.
AtCommitApplying == at_upc \in {"u_recv", "u_apply"}

C17_NonOwnerLeavesStoreUnchanged ==
    [][co_pc' # co_pc => (co_vec' = co_vec /\ co_missing' = co_missing)]_vars

\* update() has returned after a phase in which the submitting threads made
\* their calls and all of them had finished before update() started.
AtQuiescentCommit == at_phase = "committed" /\ at_clean /\ AtMidCall = {}

AtUpdateRuns ==
    /\ \/ At_update_reset_cc
       \/ At_update_reset_ctr
       \/ At_update_recv
       \/ At_update_sort
       \/ At_update_apply_add
       \/ At_update_apply_remove
       \/ At_update_len
    /\ FrameAt

\* AtomicIndexedOrderedVec with a creation thread that is always scheduled;
\* nothing is assumed of the submitting threads, which may stall anywhere.
SpecAtLive == InitAt /\ [][NextAt]_vars /\ WF_vars(AtUpdateRuns)

InitCd ==
    /\ InitStores
    /\ log_container = "AtomicIndexedOrderedVec"
    /\ \E pair \in CdInputs : CdInit(pair)

FrameCd == UNCHANGED <<overflow_checks, ovVars, shVars, atVars, coVars, hcVars,
                       log_container, ovqVars,
          shqVars, histVars>>

NextCd ==
    \/ Cd_to_id /\ FrameCd
    \/ Cd_from_id /\ FrameCd

SpecCd == InitCd /\ [][NextCd]_vars

\* C20: for every index i and generation g, to_id(IndexPair{i, g}) is
\* defined and holds i in bits 0..31 and g in bits 32..63, and from_id of it
\* has index i and version g.
C20_CodecRoundTrip ==
    /\ cd_pc # "panicked"
    /\ cd_pc \in {"encoded", "decoded"} =>
          cd_id = [lo |-> cd_pair.index, hi |-> cd_pair.version]
    /\ cd_pc = "decoded" => cd_out = cd_pair

\* ------------------------------------ OrderedVec: queries and iterators
\* get(id) / get_mut(id): the store is left as it is; the call and its
\* result are recorded (ov_ops lists only the calls that change the store).
OV_get ==
    /\ ~ov_panicked
    /\ \E id \in IdInputs :
         ov_last' = OVLast("get", id, from_id(id).index, ov_get(id))
    /\ UNCHANGED <<ov_vec, ov_missing, ov_panicked, ov_next, ov_handles, ov_ops>>

\* The values of the slots that hold one, in slot order.
ValuesOf(vec) ==
    LET vals == [k \in 1..Len(vec) |-> vec[k].val]
        IsSome(v) == v # NoneVal
    IN  SelectSeq(vals, IsSome)

\* clear() returning only the values (a filter_map in place of the map).
ClearResult_values_only(vec) == ValuesOf(vec)

\* What clear() returns: rep.into_iter().map(|(val, _)| val).collect().
ClearResult(vec) == [k \in 1..Len(vec) |-> vec[k].val]

\* clear() with the Vec it returns.
OV_clear_returning ==
    /\ OV_clear
    /\ ov_out' = ClearResult(ov_vec)

\* The indices (from 0) of the slots that hold a value.
OVOccupied == {i \in 0..(Len(ov_vec) - 1) : ov_vec[i + 1].val # NoneVal}

\* What iter() yields when consumed to the end: for each slot in order that
\* holds a value, (to_id(IndexPair::new(index, version)), value).
IterResult(vec) ==
    LET pairs == [k \in 1..Len(vec) |->
                     [id |-> to_id(IndexPairNew(k - 1, vec[k].ver)), val |-> vec[k].val]]
        IsSome(p) == p.val # NoneVal
    IN  SelectSeq(pairs, IsSome)

\* iter() (likewise iter_mut, into_iter), consumed to the end: to_id is
\* called for the first occupied slot reached, and panics under overflow
\* checks.
OV_iter ==
    /\ ~ov_panicked
    /\ IF to_id_panics /\ OVOccupied # {}
       THEN /\ ov_panicked' = TRUE
            /\ ov_last' = OVLast("iter_panic", NoId, 0, NoneVal)
            /\ ov_out' = <<>>
       ELSE /\ UNCHANGED ov_panicked
            /\ ov_last' = OVLast("iter", NoId, 0, NoneVal)
            /\ ov_out' = IterResult(ov_vec)
    /\ UNCHANGED <<ov_vec, ov_missing, ov_next, ov_handles, ov_ops>>

\* The filters given to my_drain: 0 = the even values, 1 = the odd values,
\* 2 = every value.
DrainFilters == 0..2

DrainFilter(f, val) == f = 2 \/ val % 2 = f

\* my_drain, first loop: the ids of the occupied slots the filter accepts,
\* in slot order.
RemovedIds(vec, f) ==
    LET pairs == IterResult(vec)
        Accepted(p) == DrainFilter(f, p.val)
        kept == SelectSeq(pairs, Accepted)
    IN  [k \in 1..Len(kept) |-> kept[k].id]

\* my_drain, the returned iterator consumed to the end: for each id in turn
\* (id, self.remove(id).unwrap()).  remove pushes the index onto missing
\* first; the unwrap panics when remove returns None (index out of range,
\* other version, or an empty slot), leaving what was done so far.
RECURSIVE DrainApply(_, _, _, _)
DrainApply(vec, missing, ids, out) ==
    IF ids = <<>>
    THEN [vec |-> vec, missing |-> missing, out |-> out, panic |-> FALSE]
    ELSE LET id == Head(ids)
             pair == from_id(id)
             pushed == Append(missing, pair.index)
         IN  IF \/ pair.index >= Len(vec)
                \/ pair.version # vec[pair.index + 1].ver
                \/ vec[pair.index + 1].val = NoneVal
             THEN [vec |-> vec, missing |-> pushed, out |-> out, panic |-> TRUE]
             ELSE DrainApply([vec EXCEPT ![pair.index + 1].val = NoneVal], pushed,
                             Tail(ids),
                             Append(out, [id |-> id, val |-> vec[pair.index + 1].val]))

\* my_drain(filter) with its iterator consumed to the end.  The first loop
\* calls to_id for every occupied slot (a panic under overflow checks).
OV_my_drain ==
    /\ ~ov_panicked
    /\ Len(ov_missing) < MaxMissing
    /\ \E f \in DrainFilters :
         IF to_id_panics /\ OVOccupied # {}
         THEN /\ ov_panicked' = TRUE
              /\ ov_last' = OVLast("drain_panic", NoId, f, NoneVal)
              /\ ov_out' = <<>>
              /\ UNCHANGED <<ov_vec, ov_missing>>
         ELSE LET r == DrainApply(ov_vec, ov_missing, RemovedIds(ov_vec, f), <<>>) IN
              /\ ov_vec' = r.vec
              /\ ov_missing' = r.missing
              /\ ov_out' = r.out
              /\ ov_panicked' = r.panic
              /\ ov_last' = OVLast(IF r.panic THEN "drain_panic" ELSE "my_drain",
                                   NoId, f, NoneVal)
    /\ ov_ops' = ov_ops \cup {"my_drain"}
    /\ UNCHANGED <<ov_next, ov_handles>>

\* OrderedVec with its queries and iterators; a call that returns no
\* sequence leaves ov_out empty.
\* get_next_index(): vec.len() if missing is empty, else the last entry of
\* missing; the store is left as it is.
OV_get_next_index ==
    /\ ~ov_panicked
    /\ LET index == IF ov_missing = <<>> THEN Len(ov_vec)
                    ELSE ov_missing[Len(ov_missing)] IN
       ov_last' = OVLast("get_next_index", NoId, index, NoneVal)
    /\ UNCHANGED <<ov_vec, ov_missing, ov_panicked, ov_next, ov_handles, ov_ops>>

\* get_next_id(): to_id(vec.len(), 0) if missing is empty, else
\* index = last of missing, vec.get(index).unwrap() (panics out of range),
\* to_id(index, version + 1).
OV_get_next_id ==
    /\ ~ov_panicked
    /\ LET index == IF ov_missing = <<>> THEN Len(ov_vec)
                    ELSE ov_missing[Len(ov_missing)]
           unwrap_fails == ov_missing # <<>> /\ index >= Len(ov_vec)
           version == IF ov_missing = <<>> THEN 0
                      ELSE IF unwrap_fails THEN 0
                      ELSE ov_vec[index + 1].ver + 1 IN
       IF unwrap_fails \/ to_id_panics
       THEN /\ ov_panicked' = TRUE
            /\ ov_last' = OVLast("next_id_panic", NoId, index, NoneVal)
       ELSE /\ UNCHANGED ov_panicked
            /\ ov_last' = OVLast("get_next_id", to_id(IndexPairNew(index, version)),
                                 index, NoneVal)
    /\ UNCHANGED <<ov_vec, ov_missing, ov_next, ov_handles, ov_ops>>

InitOVQ == InitOV

FrameOVQ == UNCHANGED <<overflow_checks, shVars, atVars, coVars, hcVars, log_container,
                        cdVars, shqVars, histVars>>

NextOVQ ==
    \/ OV_push /\ ov_out' = <<>> /\ FrameOVQ
    \/ OV_shove /\ ov_out' = <<>> /\ FrameOVQ
    \/ OV_remove /\ ov_out' = <<>> /\ FrameOVQ
    \/ OV_remove_index /\ ov_out' = <<>> /\ FrameOVQ
    \/ OV_get /\ ov_out' = <<>> /\ FrameOVQ
    \/ OV_clear_returning /\ FrameOVQ
    \/ OV_iter /\ FrameOVQ
    \/ OV_my_drain /\ FrameOVQ
    \/ OV_get_next_index /\ ov_out' = <<>> /\ FrameOVQ
    \/ OV_get_next_id /\ ov_out' = <<>> /\ FrameOVQ

SpecOVQ == InitOVQ /\ [][NextOVQ]_vars

\* The slot a handle points at holds its generation.
OVGenerationMatches(id) ==
    LET pair == from_id(id) IN
    /\ pair.index < Len(ov_vec)
    /\ ov_vec[pair.index + 1].ver = pair.version

\* C21 as claimed: get(h) returns a value if and only if h.index is in range
\* and the slot's generation equals h's.
C21_GetIffGenerationMatches ==
    ov_last.op = "get" => (ov_last.val # NoneVal <=> OVGenerationMatches(ov_last.id))

\* C21 as amended: get(h) returns a value if and only if h.index is in range,
\* the slot's generation equals h's and the slot holds a value; the value
\* returned is the slot's.
C21_GetIffMatchesAndOccupied ==
    ov_last.op = "get" =>
        /\ ov_last.val # NoneVal <=>
              (/\ OVGenerationMatches(ov_last.id)
               /\ ov_vec[ov_last.idx + 1].val # NoneVal)
        /\ ov_last.val # NoneVal => ov_last.val = ov_vec[ov_last.idx + 1].val

\* get returns the value of a slot that has been reused (generation 1).
C21_Witness ==
    /\ ov_last.op = "get"
    /\ ov_last.val # NoneVal
    /\ from_id(ov_last.id).version = 1

\* C22: count() = len(vec) - len(missing) does not underflow and is the
\* number of slots that hold a value; count() + count_invalid() is the
\* number of slots.
C22_CountIsOccupied ==
    /\ Len(ov_vec) >= Len(ov_missing)
    /\ ov_count = Cardinality(OVOccupied)
    /\ ov_count + Len(ov_missing) = Len(ov_vec)

\* C23 as claimed: clear() returns the previously valid values in ascending
\* slot order, one entry per occupied slot; the result is as long as count()
\* was before the call.  Stated for the calls made while missing lists
\* exactly the free slots, where count() is the number of occupied slots.
C23_ClearReturnsValidValues ==
    [][(ov_last'.op = "clear" /\ C12_MissingIsTheSetOfEmptySlots) =>
         /\ ov_out' = ValuesOf(ov_vec)
         /\ Len(ov_out') = ov_count]_vars

\* C23 as amended: clear() returns one entry per slot, in ascending slot
\* order: the slot's value, or None for a free slot; its entries that are
\* not None are the previously valid values in slot order.
C23_ClearReturnsEverySlot ==
    [][ov_last'.op = "clear" =>
         /\ Len(ov_out') = Len(ov_vec)
         /\ \A k \in 1..Len(ov_vec) : ov_out'[k] = ov_vec[k].val]_vars

\* clear() has returned a value and a None.
C23_Witness ==
    /\ ov_last.op = "clear"
    /\ \E j, k \in 1..Len(ov_out) : ov_out[j] = NoneVal /\ ov_out[k] # NoneVal

\* C24 as claimed: clear() frees every slot but keeps the slots: the number
\* of slots is unchanged, every slot is free and every index is listed in
\* missing.
C24_ClearKeepsSlots ==
    [][ov_last'.op = "clear" =>
         /\ Len(ov_vec') = Len(ov_vec)
         /\ \A k \in 1..Len(ov_vec') : ov_vec'[k].val = NoneVal
         /\ \A i \in 0..(Len(ov_vec) - 1) : Occurrences(ov_missing', i) = 1]_vars

\* C24 as amended: clear() removes every slot: afterwards there is no slot
\* and missing is empty, and the next insertion stores its value in a new
\* slot 0 with generation 0.
C24_ClearRemovesSlots ==
    [][/\ ov_last'.op = "clear" => (ov_vec' = <<>> /\ ov_missing' = <<>>)
       /\ (ov_last.op = "clear" /\ ov_next' # ov_next)
             => (ov_vec' = <<Slot(ov_next, 0)>> /\ ov_missing' = <<>>)]_vars

\* An insertion into a store that clear() had emptied of earlier elements:
\* the element sits alone in slot 0 with generation 0.
C24_Witness ==
    /\ ov_vec = <<Slot(ov_next - 1, 0)>>
    /\ ov_last.op \in {"push_shove", "panic"}
    /\ ov_next > 2

C26_IterYieldsOccupied ==
    /\ ov_last.op # "iter_panic"
    /\ ov_last.op = "iter" =>
          /\ Len(ov_out) = Cardinality(OVOccupied)
          /\ \A i \in OVOccupied : \E k \in 1..Len(ov_out) :
                /\ from_id(ov_out[k].id) = IndexPairNew(i, ov_vec[i + 1].ver)
                /\ ov_out[k].val = ov_vec[i + 1].val
          /\ \A j, k \in 1..Len(ov_out) :
                j < k => from_id(ov_out[j].id).index < from_id(ov_out[k].id).index
          /\ \A k \in 1..Len(ov_out) : ov_get(ov_out[k].id) = ov_out[k].val

\* The occupied slots whose value the filter f accepts.
DrainTargets(f) == {i \in OVOccupied : DrainFilter(f, ov_vec[i + 1].val)}

\* C27: my_drain(filter), consumed to the end, does not panic, empties
\* exactly the occupied slots whose value the filter accepts, yields each of
\* them as (handle, value) in ascending index order with its slot's
\* generation, and leaves every other slot as it was.
C27_DrainRemovesAccepted ==
    [][/\ ov_last'.op # "drain_panic"
       /\ ov_last'.op = "my_drain" =>
            LET targets == DrainTargets(ov_last'.idx) IN
            /\ ov_vec' = [k \in 1..Len(ov_vec) |->
                            IF (k - 1) \in targets
                            THEN Slot(NoneVal, ov_vec[k].ver)
                            ELSE ov_vec[k]]
            /\ Len(ov_out') = Cardinality(targets)
            /\ \A i \in targets : \E k \in 1..Len(ov_out') :
                  /\ from_id(ov_out'[k].id) = IndexPairNew(i, ov_vec[i + 1].ver)
                  /\ ov_out'[k].val = ov_vec[i + 1].val
            /\ \A j, k \in 1..Len(ov_out') :
                  j < k => from_id(ov_out'[j].id).index < from_id(ov_out'[k].id).index]_vars

\* C28: get_next_id() and get_next_index() return normally in every state
\* and leave the store as it is, and the push_shove that immediately follows
\* returns the handle get_next_id() returned, and a handle whose index is
\* the one get_next_index() returned.
C28_NextIdIsWhatPushShoveReturns ==
    [][/\ ov_last'.op # "next_id_panic"
       /\ ov_last'.op \in {"get_next_id", "get_next_index"} =>
             UNCHANGED <<ov_vec, ov_missing>>
       /\ (ov_last.op = "get_next_id" /\ ov_next' # ov_next) =>
             /\ ov_last'.op = "push_shove"
             /\ ov_last'.id = ov_last.id
       /\ (ov_last.op = "get_next_index" /\ ov_next' # ov_next) =>
             /\ ov_last'.op = "push_shove"
             /\ from_id(ov_last'.id).index = ov_last.idx]_vars

\* C29: the generation of a slot starts at 0, a push_shove that reuses a
\* freed slot adds exactly 1 to it, and no other step changes it: remove,
\* remove_index, get and get_mut leave it as it is, and a push_shove never
\* bumps the generation of a slot that holds a value.
C29_GenerationRule ==
    [][\A k \in 1..Len(ov_vec') :
          IF k > Len(ov_vec)
          THEN ov_vec'[k].ver = 0
          ELSE IF /\ ov_next' # ov_next
                  /\ ov_missing # <<>>
                  /\ ov_missing[Len(ov_missing)] = k - 1
                  /\ ov_vec[k].val = NoneVal
               THEN ov_vec'[k].ver = ov_vec[k].ver + 1
               ELSE ov_vec'[k].ver = ov_vec[k].ver]_vars

\* ------------------------------- ShareableOrderedVec: get_next_id()
\* get_next_id(): index = the last entry of missing, or vec.len() if there
\* is none; vec.get(index).unwrap() (panics out of range);
\* to_id(index, version.unwrap_or(0)). It takes &self: any thread may call
\* it, also while reservations are in progress.
Sh_get_next_id ==
    /\ ~sh_panicked
    /\ LET index == IF sh_missing = <<>> THEN Len(sh_vec)
                    ELSE sh_missing[Len(sh_missing)] IN
       IF index >= Len(sh_vec)
       THEN /\ sh_panicked' = TRUE
            /\ sh_last' = ShLast("panic", NoId)
       ELSE LET version == UnwrapOr0(sh_vec[index + 1].ver) IN
            IF to_id_panics
            THEN /\ sh_panicked' = TRUE
                 /\ sh_last' = ShLast("panic", NoId)
            ELSE /\ UNCHANGED sh_panicked
                 /\ sh_last' = ShLast("get_next_id", to_id(IndexPairNew(index, version)))
    /\ UNCHANGED <<sh_vec, sh_missing, sh_counter, sh_length, sh_pc, sh_ctr, sh_ord,
                   sh_next, sh_granted, sh_epoch>>

\* The ID the next get_next_id_increment() returns when it runs from this
\* state with no other call in between.
ShNextIncrement ==
    LET ctr == sh_counter
        index == IF ctr < Len(sh_missing) THEN sh_missing[ctr + 1] ELSE sh_length
        version == IF index < Len(sh_vec)
                   THEN UnwrapOr0(sh_vec[index + 1].ver) + 1
                   ELSE 0
    IN  to_id(IndexPairNew(index, version))

\* ShareableOrderedVec with get_next_id(): sh_last records the call while no
\* other call has followed it.
InitShQ == InitSh

FrameShQ == UNCHANGED <<overflow_checks, ovVars, atVars, coVars, hcVars, log_container,
                        cdVars, ovqVars, histVars>>

ShForget == sh_last' = ShLast("other", NoId)

NextShQ ==
    \/ (\E t \in ShThreads : Sh_reserve_ctr(t)) /\ ShForget /\ FrameShQ
    \/ (\E t \in ShThreads : Sh_reserve_finish(t)) /\ ShForget /\ FrameShQ
    \/ Sh_insert_reserved /\ ShForget /\ FrameShQ
    \/ Sh_insert /\ ShForget /\ FrameShQ
    \/ Sh_remove /\ ShForget /\ FrameShQ
    \/ Sh_remove_index /\ ShForget /\ FrameShQ
    \/ Sh_clear /\ ShForget /\ FrameShQ
    \/ Sh_get_next_id /\ FrameShQ

SpecShQ == InitShQ /\ [][NextShQ]_vars

\* C30: get_next_id() returns normally in every state, also with missing
\* empty; the ID it returns is the one the next reservation hands out; it
\* leaves counter and length as they are; two calls in a row return the
\* same ID.
C30_NextIdIsNextReservation ==
    [][/\ sh_last'.op # "panic"
       /\ sh_last'.op = "get_next_id" =>
             /\ sh_last'.id = ShNextIncrement
             /\ UNCHANGED <<sh_counter, sh_length>>
             /\ sh_last.op = "get_next_id" => sh_last'.id = sh_last.id]_vars

\* ------------------- AtomicIndexedOrderedVec: the order of the commands
\* cbuffer.sort_by(command_id) as it moves the tickets: the commands are
\* sorted together with their tickets.
SortTickets(cbuffer, tickets) ==
    LET zipped == [k \in 1..Len(cbuffer) |-> [seq |-> cbuffer[k].seq, tk |-> tickets[k]]]
        sorted == SortBySeq(zipped)
    IN  [k \in 1..Len(sorted) |-> sorted[k].tk]

\* What a step of the AtomicIndexedOrderedVec does to the history.
AtHistStep ==
    LET taking == {t \in AtThreads : /\ at_pc[t] \in {"p_cid", "r_cid"}
                                     /\ at_pc'[t] \in {"p_send", "r_send"}}
        sending == {t \in AtThreads : /\ at_pc[t] \in {"p_send", "r_send"}
                                      /\ at_pc'[t] \in {"p_empty", "r_empty"}}
    IN  IF taking # {}
        THEN at_hist' = [at_hist EXCEPT
                           !.tick = at_hist.tick + 1,
                           !.tk = [t \in AtThreads |->
                                     IF t \in taking THEN at_hist.tick + 1
                                     ELSE at_hist.tk[t]]]
        ELSE IF sending # {}
        THEN at_hist' = [at_hist EXCEPT
                           !.chan = Append(at_hist.chan,
                                           at_hist.tk[CHOOSE t \in sending : TRUE])]
        ELSE IF Len(at_cbuffer') = Len(at_cbuffer) + 1
        THEN at_hist' = [at_hist EXCEPT !.chan = Tail(at_hist.chan),
                                        !.cbuf = Append(at_hist.cbuf, Head(at_hist.chan))]
        ELSE IF at_upc = "u_recv" /\ at_upc' = "u_apply"
        THEN at_hist' = [at_hist EXCEPT !.cbuf = SortTickets(at_cbuffer, at_hist.cbuf)]
        ELSE IF Len(at_cbuffer') = Len(at_cbuffer) - 1
        THEN at_hist' = [at_hist EXCEPT !.cbuf = Tail(at_hist.cbuf),
                                        !.applied = Append(at_hist.applied,
                                                           Head(at_hist.cbuf))]
        ELSE UNCHANGED at_hist

\* AtomicIndexedOrderedVec with the history of its commands' sequence numbers.
InitAtQ == InitAt

FrameAtQ == UNCHANGED <<overflow_checks, ovVars, shVars, coVars, hcVars, log_container,
                        cdVars, ovqVars, shqVars, ov_hist, co_hist>>

NextAtQ ==
    \/ (\E t \in AtThreads : At_push_ctr(t)) /\ AtHistStep /\ FrameAtQ
    \/ (\E t \in AtThreads : At_push_idx(t)) /\ AtHistStep /\ FrameAtQ
    \/ (\E t \in AtThreads : At_push_cid(t)) /\ AtHistStep /\ FrameAtQ
    \/ (\E t \in AtThreads : At_push_send(t)) /\ AtHistStep /\ FrameAtQ
    \/ (\E t \in AtThreads : At_push_empty(t)) /\ AtHistStep /\ FrameAtQ
    \/ (\E t \in AtThreads : At_push_bit(t)) /\ AtHistStep /\ FrameAtQ
    \/ (\E t \in AtThreads : At_remove_get(t)) /\ AtHistStep /\ FrameAtQ
    \/ (\E t \in AtThreads : At_remove_cid(t)) /\ AtHistStep /\ FrameAtQ
    \/ (\E t \in AtThreads : At_remove_send(t)) /\ AtHistStep /\ FrameAtQ
    \/ (\E t \in AtThreads : At_remove_empty(t)) /\ AtHistStep /\ FrameAtQ
    \/ (\E t \in AtThreads : At_remove_bit(t)) /\ AtHistStep /\ FrameAtQ
    \/ At_owner_push /\ AtHistStep /\ FrameAtQ
    \/ At_owner_remove /\ AtHistStep /\ FrameAtQ
    \/ At_update_load /\ AtHistStep /\ FrameAtQ
    \/ At_update_reset_cc /\ AtHistStep /\ FrameAtQ
    \/ At_update_reset_ctr /\ AtHistStep /\ FrameAtQ
    \/ At_update_recv /\ AtHistStep /\ FrameAtQ
    \/ At_update_sort /\ AtHistStep /\ FrameAtQ
    \/ At_update_apply_add /\ AtHistStep /\ FrameAtQ
    \/ At_update_apply_remove /\ AtHistStep /\ FrameAtQ
    \/ At_update_len /\ AtHistStep /\ FrameAtQ

SpecAtQ == InitAtQ /\ [][NextAtQ]_vars

InitShR == InitSh

FrameShR == UNCHANGED <<overflow_checks, ovVars, atVars, coVars, hcVars, log_container,
                        cdVars, ovqVars, shqVars, histVars>>

NextShR ==
    \/ (\E t \in ShThreads : Sh_reserve_ctr_upto(t, MaxEpochReserve)) /\ FrameShR
    \/ (\E t \in ShThreads : Sh_reserve_finish(t)) /\ FrameShR
    \/ Sh_insert_reserved /\ FrameShR
    \/ Sh_remove /\ FrameShR
    \/ Sh_clear /\ FrameShR

SpecShR == InitShR /\ [][NextShR]_vars

\* C32: when a reserved handle has been inserted while other reservations
\* of the same epoch are outstanding, a handle returned by a later
\* get_next_id_increment differs from every handle that is reserved and not
\* yet inserted.
C32_InsertKeepsReservationsApart ==
    [][(/\ Len(sh_granted') = Len(sh_granted) + 1
        /\ sh_epoch.clean
        /\ \E i \in 1..Len(sh_granted) : sh_granted[i].val # NoneVal)
          => \A j \in 1..Len(sh_granted) :
                sh_granted[j].val = NoneVal
                   => sh_granted'[Len(sh_granted')].id # sh_granted[j].id]_vars

\* C33: in every state reached by push_shove, remove with any handle,
\* remove_index and clear, the calls push_shove, get_next_id and
\* get_next_index return normally (no unwrap on a slot that does not exist),
\* and so does count(): vec.len() - missing.len() does not underflow.
C33_OperationsNeverFail ==
    /\ ov_last.op \notin {"panic", "next_id_panic"}
    /\ ov_count >= 0

\* -------------------------------- OrderedVec: handles that became stale
\* What a step of the OrderedVec does to the history: a remove that returns
\* the element invalidates its handle; a clear invalidates every handle that
\* resolved before it.
OVHistStep ==
    LET removed == IF ov_last'.op = "remove" /\ ov_last'.val # NoneVal
                   THEN {ov_last'.id} ELSE {}
        dropped == IF ov_last'.op = "clear"
                   THEN {h \in IdInputs : ov_get(h) # NoneVal} ELSE {}
    IN  ov_hist' = [ever |-> ov_hist.ever \cup removed \cup dropped,
                    removed |-> IF ov_last'.op = "clear" THEN {}
                                ELSE ov_hist.removed \cup removed]

InitOVH == InitOV

FrameOVH == UNCHANGED <<overflow_checks, shVars, atVars, coVars, hcVars, log_container,
                        cdVars, ovqVars, shqVars, at_hist, co_hist>>

NextOVH ==
    \/ OV_push /\ OVHistStep /\ FrameOVH
    \/ OV_shove /\ OVHistStep /\ FrameOVH
    \/ OV_remove /\ OVHistStep /\ FrameOVH
    \/ OV_remove_index /\ OVHistStep /\ FrameOVH
    \/ OV_clear /\ OVHistStep /\ FrameOVH
    \/ OV_get /\ OVHistStep /\ FrameOVH

SpecOVH == InitOVH /\ [][NextOVH]_vars

\* C34: once a handle has been invalidated, by a remove of its element or
\* by a clear that dropped it, get of it returns None in every later state.
C34_StaleStaysStale ==
    \A h \in ov_hist.ever : ov_get(h) = NoneVal

\* C34, amended: once remove(h) has returned the element, get(h) returns
\* None in every later state, as long as clear has not been called since.
C34_RemovedStaysStale ==
    \A h \in ov_hist.removed : ov_get(h) = NoneVal

\* C34: the slot of a removed handle has been reused by a push_shove.
C34_Witness ==
    /\ ov_last.op = "push_shove"
    /\ \E h \in ov_hist.removed :
          /\ from_id(h).index = ov_last.idx
          /\ ov_vec[ov_last.idx + 1].val # NoneVal

\* The handles that n get_next_id_increment calls return when they start
\* with missing m0, length L0 and counter c0 on the slots vec, whatever the
\* order of their atomic steps: the counter values c0 .. c0 + n - 1 below
\* len(m0) take their entry of m0, the others the lengths from L0 upwards.
ShEpochHandles(vec, m0, L0, c0, n) ==
    LET tombstones == {c \in c0..(c0 + n - 1) : c < Len(m0)}
        fresh == n - Cardinality(tombstones)
        indices == {m0[c + 1] : c \in tombstones} \cup {L0 + j : j \in 0..(fresh - 1)}
    IN  {to_id(IndexPairNew(i, IF i < Len(vec) THEN UnwrapOr0(vec[i + 1].ver) + 1 ELSE 0)) :
            i \in indices}

\* C35: when the reservations of an epoch have all returned (no insert,
\* remove or clear in between), the set of handles they returned is the one
\* the state at the start of the epoch determines, under every interleaving
\* of the callers' steps on counter and length.
C35_ReservationSetIsDetermined ==
    (ShOnlyReservations /\ ShMidCall = {} /\ ~sh_panicked)
        => {sh_granted[k].id : k \in 1..Len(sh_granted)} =
              ShEpochHandles(sh_vec, sh_epoch.m0, sh_epoch.L0,
                             sh_counter - Len(sh_granted), Len(sh_granted))

\* C35: two concurrent reservations of fresh indices have returned, and the
\* caller with the later counter value got the lower index.
C35_Witness ==
    /\ ShOnlyReservations
    /\ ShMidCall = {}
    /\ Len(sh_granted) = 2
    /\ sh_granted[1].ord = 1
    /\ sh_granted[2].ord = 0
    /\ sh_granted[1].index = sh_epoch.L0
    /\ sh_granted[2].index = sh_epoch.L0 + 1

\* ----------------- ConcurrentOrderedVec: what the submitters' calls return
\* A step in which a push_shove of a submitting thread returns appends the
\* returned index to the history, with whether the slot of that index holds
\* a value at that moment: the Add branch returns len.fetch_add(1), the
\* OverWrite branch the popped index.
CoHistStep ==
    LET added == {t \in CoThreads : co_pc[t] = "p_add_len" /\ co_pc'[t] = "idle"}
        shoved == {t \in CoThreads : co_pc[t] = "p_ow_send" /\ co_pc'[t] = "idle"}
        holds(idx) == idx < Len(co_vec) /\ co_vec[idx + 1] # NoneVal
    IN  IF added # {}
        THEN co_hist' = Append(co_hist, [idx |-> co_len, occupied |-> holds(co_len)])
        ELSE IF shoved # {}
        THEN LET idx == co_loc[CHOOSE t \in shoved : TRUE].idx IN
             co_hist' = Append(co_hist, [idx |-> idx, occupied |-> holds(idx)])
        ELSE UNCHANGED co_hist

\* update() closes the batch of submitted calls.
CoHistReset == co_hist' = <<>>

InitCoQ == InitCo

FrameCoQ == UNCHANGED <<overflow_checks, ovVars, shVars, atVars, hcVars, log_container,
                        cdVars, ovqVars, shqVars, at_hist, ov_hist>>

NextCoQ ==
    \/ (\E t \in CoThreads : Co_push_cmd(t)) /\ CoHistStep /\ FrameCoQ
    \/ (\E t \in CoThreads : Co_push_check(t)) /\ CoHistStep /\ FrameCoQ
    \/ (\E t \in CoThreads : Co_push_add_send(t)) /\ CoHistStep /\ FrameCoQ
    \/ (\E t \in CoThreads : Co_push_add_len(t)) /\ CoHistStep /\ FrameCoQ
    \/ (\E t \in CoThreads : Co_push_pop(t)) /\ CoHistStep /\ FrameCoQ
    \/ (\E t \in CoThreads : Co_push_ow_send(t)) /\ CoHistStep /\ FrameCoQ
    \/ (\E t \in CoThreads : Co_remove_cmd(t)) /\ CoHistStep /\ FrameCoQ
    \/ (\E t \in CoThreads : Co_remove_push(t)) /\ CoHistStep /\ FrameCoQ
    \/ (\E t \in CoThreads : Co_remove_send(t)) /\ CoHistStep /\ FrameCoQ
    \/ Co_owner_push /\ CoHistStep /\ FrameCoQ
    \/ Co_owner_remove /\ CoHistStep /\ FrameCoQ
    \/ Co_update /\ CoHistReset /\ FrameCoQ

SpecCoQ == InitCoQ /\ [][NextCoQ]_vars

\* C36: the push_shove calls of the submitting threads all return normally
\* (none panics on popping a missing stack that has been emptied), the
\* indices they return are pairwise distinct, and none is the index of a
\* slot that holds a value.
C36_ConcurrentPushesReturnFreeIndices ==
    /\ \A t \in CoThreads : co_pc[t] # "dead"
    /\ \A j, k \in 1..Len(co_hist) : j # k => co_hist[j].idx # co_hist[k].idx
    /\ \A k \in 1..Len(co_hist) : ~co_hist[k].occupied

\* Submitting threads inside remove(idx) that found the bit of idx set: each
\* sends a Remove(idx) command and returns Some(()).
AtRemoving(idx) ==
    {t \in AtThreads : /\ at_pc[t] \in {"r_cid", "r_send", "r_empty", "r_bit"}
                       /\ at_loc[t].idx = idx}

HcLastPushes ==
    {k \in 1..Len(hc_drained) :
        /\ hc_drained[k].elem # NoneVal
        /\ ~\E j \in 1..Len(hc_drained) : /\ hc_drained[j].idx = hc_drained[k].idx
                                          /\ hc_drained[j].seq > hc_drained[k].seq}

\* C38: once push_shove(elem) has returned idx and update() has run,
\* update() has not panicked and slot idx of vec holds elem.
C38_UpdateStoresPushedElement ==
    /\ ~hc_dead
    /\ \A k \in HcLastPushes :
          /\ hc_drained[k].idx < Len(hc_vec)
          /\ hc_vec[hc_drained[k].idx + 1] = hc_drained[k].elem

\* ------------------------------------------ HalfConcurrent: get_next_idx
\* val >> n on a batch kept as the set of its set bits.
ShiftRight(bits, n) == {b - n : b \in {x \in bits : x >= n}}

\* A call returns idx: the thread is idle again and keeps the result.
HcReturn(t, idx) ==
    /\ hc_pc' = [hc_pc EXCEPT ![t] = "idle"]
    /\ hc_loc' = [hc_loc EXCEPT ![t] = [HcNoLoc EXCEPT !.kind = "next_idx", !.idx = idx]]

\* get_next_idx(): if let Some(idx) = self.filled() { return idx; }, else
\* enter fetch_find().
Hc_next_filled(t) ==
    /\ hc_pc[t] = "idle"
    /\ IF HcFilled(hc_batches)
       THEN HcReturn(t, Len(hc_batches) * BatchBits)
       ELSE /\ hc_pc' = [hc_pc EXCEPT ![t] = "g_find"]
            /\ hc_loc' = [hc_loc EXCEPT ![t] = HcNoLoc]
    /\ UNCHANGED <<hc_batches, hc_vec, hc_ctr, hc_chan, hc_dead, hc_next, hc_calls,
                   hc_drained, hc_applied>>

\* fetch_find(): its own filled() test, then the read guard on batches.
Hc_next_find(t) ==
    /\ hc_pc[t] = "g_find"
    /\ IF HcFilled(hc_batches)
       THEN HcReturn(t, Len(hc_batches) * BatchBits)
       ELSE /\ hc_pc' = [hc_pc EXCEPT ![t] = "g_for"]
            /\ hc_loc' = [hc_loc EXCEPT ![t].batch = 1]
    /\ UNCHANGED <<hc_batches, hc_vec, hc_ctr, hc_chan, hc_dead, hc_next, hc_calls,
                   hc_drained, hc_applied>>

\* One turn of `for atomic in batches.iter()`: load val, c = 0; a batch with
\* a clear bit enters the while loop; past the last batch, panic!().
Hc_next_load(t) ==
    /\ hc_pc[t] = "g_for"
    /\ IF hc_loc[t].batch > Len(hc_batches)
       THEN /\ hc_pc' = [hc_pc EXCEPT ![t] = "g_panic"]
            /\ UNCHANGED hc_loc
       ELSE IF hc_batches[hc_loc[t].batch] # HcMax
       THEN /\ hc_pc' = [hc_pc EXCEPT ![t] = "g_while"]
            /\ hc_loc' = [hc_loc EXCEPT ![t].val = hc_batches[hc_loc[t].batch], ![t].c = 0]
       ELSE /\ hc_loc' = [hc_loc EXCEPT ![t].batch = hc_loc[t].batch + 1]
            /\ UNCHANGED hc_pc
    /\ UNCHANGED <<hc_batches, hc_vec, hc_ctr, hc_chan, hc_dead, hc_next, hc_calls,
                   hc_drained, hc_applied>>

\* One iteration of `while val % 2 == 1 { val >>= 0; c += 1; }`.
Hc_next_shift(t) ==
    /\ hc_pc[t] = "g_while"
    /\ 0 \in hc_loc[t].val
    /\ hc_loc[t].c < MaxHcSpin
    /\ hc_loc' = [hc_loc EXCEPT ![t].val = ShiftRight(hc_loc[t].val, 0),
                                ![t].c = hc_loc[t].c + 1]
    /\ UNCHANGED <<hc_pc, hc_batches, hc_vec, hc_ctr, hc_chan, hc_dead, hc_next, hc_calls,
                   hc_drained, hc_applied>>

\* The while loop is left with val even: if c < 63, return
\* c + batches.len() * 64; otherwise go on with the next batch.
Hc_next_found(t) ==
    /\ hc_pc[t] = "g_while"
    /\ 0 \notin hc_loc[t].val
    /\ IF hc_loc[t].c < BatchBits - 1
       THEN HcReturn(t, hc_loc[t].c + Len(hc_batches) * BatchBits)
       ELSE /\ hc_pc' = [hc_pc EXCEPT ![t] = "g_for"]
            /\ hc_loc' = [hc_loc EXCEPT ![t].batch = hc_loc[t].batch + 1]
    /\ UNCHANGED <<hc_batches, hc_vec, hc_ctr, hc_chan, hc_dead, hc_next, hc_calls,
                   hc_drained, hc_applied>>

\* The HalfConcurrent program with get_next_idx among its calls.
InitHcN == InitHc

NextHcN ==
    \/ (\E t \in HcThreads : Hc_push_find(t)) /\ FrameHc
    \/ (\E t \in HcThreads : Hc_push_store(t)) /\ FrameHc
    \/ (\E t \in HcThreads : Hc_push_new_batch(t)) /\ FrameHc
    \/ (\E t \in HcThreads : Hc_push_filled(t)) /\ FrameHc
    \/ (\E t \in HcThreads : Hc_push_ctr(t)) /\ FrameHc
    \/ (\E t \in HcThreads : Hc_push_send(t)) /\ FrameHc
    \/ (\E t \in HcThreads : Hc_remove_load(t)) /\ FrameHc
    \/ (\E t \in HcThreads : Hc_remove_ctr(t)) /\ FrameHc
    \/ (\E t \in HcThreads : Hc_remove_send(t)) /\ FrameHc
    \/ (\E t \in HcThreads : Hc_remove_store(t)) /\ FrameHc
    \/ (\E t \in HcThreads : Hc_next_filled(t)) /\ FrameHc
    \/ (\E t \in HcThreads : Hc_next_find(t)) /\ FrameHc
    \/ (\E t \in HcThreads : Hc_next_load(t)) /\ FrameHc
    \/ (\E t \in HcThreads : Hc_next_shift(t)) /\ FrameHc
    \/ (\E t \in HcThreads : Hc_next_found(t)) /\ FrameHc
    \/ Hc_update /\ FrameHc

SpecHcN == InitHcN /\ [][NextHcN]_vars

\* C39: get_next_idx terminates: every iteration of its search loop
\* changes the value the loop condition tests, and the call never ends in
\* panic!() instead of returning an index.
C39_GetNextIdxTerminates ==
    [][\A t \in HcThreads :
          /\ (hc_pc[t] = "g_while" /\ hc_loc'[t].c = hc_loc[t].c + 1)
                => hc_loc'[t].val # hc_loc[t].val
          /\ hc_pc'[t] # "g_panic"]_vars

\* C40: whenever no reservation is outstanding (no get_next_id_increment is
\* under way and every reserved handle has been inserted), the atomic length
\* equals the number of slots of vec, also after clear().
C40_LengthIsSlotCount ==
    (ShMidCall = {} /\ ShAllInserted /\ ~sh_panicked) => sh_length = Len(sh_vec)

====
